---- MODULE Spec2Model ----
(***************************************************************************)
(* Model of the generic skip list of src/skiplist.go: a doubly linked      *)
(* ordered map with MaxLevel skip lanes, an optional hash map for exact    *)
(* lookups, and a coin-flip level sampler.                                 *)
(*                                                                         *)
(* Go pointers are modelled as addresses into `heap`, the map of the Nodes *)
(* that are still referenced (0 is nil).  A Node that was unlinked stays   *)
(* in the heap with the fields it had for as long as the list, another     *)
(* Node references it, as it does in Go.                                   *)
(***************************************************************************)
EXTENDS Integers, Sequences, FiniteSets, TLC

\* ---------------------------------------------------------------- bounds
MaxKey == 3        \* keys are 1..MaxKey
MaxDraws == 3      \* at most this many draws from the generator in one run
MaxRng == 1        \* the generator draws 0..MaxRng, or the all-ones word
MaxLevel == 3      \* number of lanes; 32 in the source, scaled down here
MaxProb == 1       \* probabilities go this many halves below 0 and above 1
MaxSeed == 1       \* seeds are 0..MaxSeed
MaxPattern == 2    \* the float generator repeats 1..MaxPattern numbers
MaxGoroutines == 2 \* the goroutines that share a list are 1..MaxGoroutines

\* ------------------------------------------------------ program constants
Uint32Bits == 32

Keys == 1..MaxKey
\* The list never compares a value nor computes with one: two distinct
\* values are enough to tell the value of any node from that of any other.
Values == {"a", "b"}
NoValue == "none"
Levels == 0..(MaxLevel - 1)
Nil == 0
Pow2(n) == 2 ^ n
HalfBits == Uint32Bits \div 2
Half == Pow2(HalfBits)

VARIABLES
    heap,      \* address -> Node [key, value, lanes, prev], referenced nodes
    nodes,     \* SkipList.nodes: key -> node, the hash map (when enabled)
    hashmap,   \* skipListOptions.hashmap: SkipList.nodes != nil
    header,    \* SkipList.header: level -> node
    last,      \* SkipList.last
    length,    \* SkipList.length
    rng,       \* number of words drawn from SkipList.rng so far
    shadow,    \* history: key -> value of the latest Set, NoValue once removed
    options,   \* skipListOptions: the `o` of New
    phase,     \* "options" while New applies options, then "built" or "panic"
    rwMutex,   \* SkipList.rwMutex (Element variant): "nil", or its lock state
    threads,   \* the calls in progress of the goroutines that share the list
    twin       \* a second list that is given the same calls, when there is one

vars == <<heap, nodes, hashmap, header, last, length, rng, shadow, options,
          phase, rwMutex, threads, twin>>

\* A goroutine that is in no call.  The writer is between the writes of the
\* call named by its pc; the reader holds what its call has read so far.
WriterIdle == [pc |-> "idle", key |-> 0, elem |-> Nil]
ReaderIdle ==
    [pc |-> "idle", method |-> "none", key |-> 0, elem |-> Nil, result |-> 0,
     access |-> "none", valid |-> {}]
NoThreads == [writer |-> WriterIdle, reader |-> ReaderIdle]
NoTwin == "none"

\* ------------------------------------------------------------ Node, maps
NoLanes == [L \in Levels |-> Nil]

NewNode(key, value) ==
    [key |-> key, value |-> value, lanes |-> NoLanes, prev |-> Nil]

\* Node.Key, Node.Value, Node.Next, Node.Prev
NodeKey(hp, n) == hp[n].key
NodeValue(hp, n) == hp[n].value
NodeNext(hp, n) == hp[n].lanes[0]
NodePrev(hp, n) == hp[n].prev

EmptyMap == [k \in {} |-> Nil]

\* node = &Node[K, V]{...}: the address of a new Node.  Any address not in
\* use will do; the first free one of those set aside for the key is taken.
\* No more than MaxDraws nodes are ever created, so one is always free.
Addresses(key) == ((key - 1) * MaxDraws + 1)..(key * MaxDraws)
Alloc(hp, key) ==
    CHOOSE a \in Addresses(key) \ DOMAIN hp :
        \A b \in Addresses(key) \ DOMAIN hp : a <= b
HeapPut(hp, a, node) == [x \in (DOMAIN hp) \cup {a} |-> IF x = a THEN node ELSE hp[x]]
MapGet(m, k) == IF k \in DOMAIN m THEN m[k] ELSE Nil
MapPut(m, k, n) == [x \in (DOMAIN m) \cup {k} |-> IF x = k THEN n ELSE m[x]]
\* mutant of MapDelete: the entry stays in the map
MapDeleteKeeps(m, k) == m

MapDelete(m, k) == [x \in (DOMAIN m) \ {k} |-> m[x]]

\* `lanes` in the descents points at the header (cur = Nil) or at the lanes
\* of node cur.
Lane(hdr, hp, cur, level) ==
    IF cur = Nil THEN hdr[level] ELSE hp[cur].lanes[level]

SetLaneHeader(hdr, cur, level, n) ==
    IF cur = Nil THEN [hdr EXCEPT ![level] = n] ELSE hdr

SetLaneHeap(hp, cur, level, n) ==
    IF cur = Nil THEN hp ELSE [hp EXCEPT ![cur].lanes[level] = n]

\* mutant of Advance: the descent also steps over a node with an equal key
RECURSIVE AdvanceOverEqual(_, _, _, _, _)
AdvanceOverEqual(hdr, hp, cur, level, key) ==
    LET n == Lane(hdr, hp, cur, level) IN
    IF n # Nil /\ hp[n].key <= key
    THEN AdvanceOverEqual(hdr, hp, n, level, key)
    ELSE cur

\* for ; lanes[level] != nil && lanes[level].key < key; lanes = &lanes[level].lanes {}
RECURSIVE Advance(_, _, _, _, _)
Advance(hdr, hp, cur, level, key) ==
    LET n == Lane(hdr, hp, cur, level) IN
    IF n # Nil /\ hp[n].key < key
    THEN Advance(hdr, hp, n, level, key)
    ELSE cur

\* ---------------------------------------------------- garbage collection
\* A Node that nothing references any longer -- neither the list, nor the
\* hash map, nor a node that is itself referenced -- is garbage once the
\* caller lets go of what the call returned: Go reclaims it and no operation
\* can observe it.  It leaves the heap when the call returns.
Refs(hp, n) ==
    ({hp[n].lanes[L] : L \in DOMAIN hp[n].lanes} \cup {hp[n].prev}) \ {Nil}

RECURSIVE Reachable(_, _)
Reachable(hp, S) ==
    LET T == S \cup UNION {Refs(hp, n) : n \in S} IN
    IF T = S THEN S ELSE Reachable(hp, T)

Roots(hdr, lst, nd) ==
    ({hdr[L] : L \in Levels} \cup {nd[k] : k \in DOMAIN nd} \cup {lst}) \ {Nil}

Collect(hp, roots) ==
    LET live == Reachable(hp, roots) IN
    [n \in live |-> hp[n]]

\* ------------------------------------------------------- level sampler
\* A uint32 is kept as two 16-bit halves [hi, lo], value hi * 2^16 + lo,
\* so that all of its 32 bits and the wrap-around of its arithmetic are
\* represented.
Word(hi, lo) == [hi |-> hi, lo |-> lo]
AllOnes32 == Word(Half - 1, Half - 1)

\* uint32(i) for an int 0 <= i < 2^31
ToUint32(i) == Word(i \div Half, i % Half)

\* a - b on uint32, modulo 2^32
Sub32(a, b) ==
    LET borrow == IF a.lo < b.lo THEN 1 ELSE 0 IN
    Word((a.hi - b.hi - borrow) % Half, (a.lo - b.lo) % Half)

\* x >> s on uint32 with a uint32 shift count: counts of 32 or more give 0
ShiftRight32(x, s) ==
    IF s.hi # 0 \/ s.lo >= Uint32Bits THEN Word(0, 0)
    ELSE IF s.lo >= HalfBits THEN Word(0, x.hi \div Pow2(s.lo - HalfBits))
    ELSE Word(x.hi \div Pow2(s.lo),
              (x.lo \div Pow2(s.lo)) + (x.hi % Pow2(s.lo)) * Pow2(HalfBits - s.lo))

RECURSIVE And16(_, _, _)
\* a & b on the low `bits` bits
And16(a, b, bits) ==
    IF bits = 0 THEN 0
    ELSE (IF a % 2 = 1 /\ b % 2 = 1 THEN 1 ELSE 0)
         + 2 * And16(a \div 2, b \div 2, bits - 1)

And32(a, b) == Word(And16(a.hi, b.hi, HalfBits), And16(a.lo, b.lo, HalfBits))

RECURSIVE TrailingOnes16(_)
TrailingOnes16(x) == IF x % 2 = 1 THEN 1 + TrailingOnes16(x \div 2) ELSE 0

\* for ; result&1 == 1; result >>= 1 { n++ }
TrailingOnes32(result) ==
    IF result.lo = Half - 1 THEN HalfBits + TrailingOnes16(result.hi)
    ELSE TrailingOnes16(result.lo)

\* result := (^uint32(0) >> (32 - uint32(limit))) & rng.Uint32()
sampleCoinflipGeoDist32(limit, word) ==
    TrailingOnes32(And32(ShiftRight32(AllOnes32, Sub32(ToUint32(Uint32Bits), ToUint32(limit))), word))

\* the words the generator may return in this model
RngValues == {ToUint32(i) : i \in 0..MaxRng} \cup {AllOnes32}

\* --------------------------------------------------------------- reads
Length == length
First == header[0]
Last == last

\* mutant of SearchDescent: lane 0 is read without advancing along it
RECURSIVE SearchDescentNoLane0(_, _, _, _, _)
SearchDescentNoLane0(hdr, hp, cur, level, key) ==
    IF level = 0 THEN Lane(hdr, hp, cur, 0)
    ELSE SearchDescentNoLane0(hdr, hp, Advance(hdr, hp, cur, level, key), level - 1, key)

\* the descent of Search over all levels, from the header
RECURSIVE SearchDescent(_, _, _, _, _)
SearchDescent(hdr, hp, cur, level, key) ==
    LET c == Advance(hdr, hp, cur, level, key) IN
    IF level = 0 THEN Lane(hdr, hp, c, 0)
    ELSE SearchDescent(hdr, hp, c, level - 1, key)

SearchIn(hdr, hp, nd, hm, key) ==
    IF hm /\ MapGet(nd, key) # Nil
    THEN MapGet(nd, key)
    ELSE SearchDescent(hdr, hp, Nil, MaxLevel - 1, key)

Search(key) == SearchIn(header, heap, nodes, hashmap, key)

\* mutant of GetIn: the node Search finds is returned whatever its key
GetInAnyKey(hdr, hp, nd, hm, key) ==
    IF hm THEN MapGet(nd, key) ELSE SearchIn(hdr, hp, nd, hm, key)

GetIn(hdr, hp, nd, hm, key) ==
    IF hm THEN MapGet(nd, key)
    ELSE LET node == SearchIn(hdr, hp, nd, hm, key) IN
         IF node # Nil /\ hp[node].key = key THEN node ELSE Nil

Get(key) == GetIn(header, heap, nodes, hashmap, key)

\* -------------------------------------------------------------- options
\* A float64 is kept as NaN or as a number of halves: an order comparison
\* with NaN is false, the numbers compare as their halves do.  The
\* infinities compare as any number beyond the range does.
Float(halves) == [nan |-> FALSE, halves |-> halves]
NaN == [nan |-> TRUE, halves |-> 0]
FloatLess(a, b) == ~a.nan /\ ~b.nan /\ a.halves < b.halves
Zero == Float(0)
One == Float(2)
DefaultProbability == Float(1)

\* the float64 and int64 values given to the options in this model
Probabilities == {NaN} \cup {Float(h) : h \in (0 - MaxProb)..(2 + MaxProb)}
Seeds == 0..MaxSeed

\* o := skipListOptions{prob: DefaultProbability, seed: time.Now().UnixNano()}
DefaultOptions == [prob |-> DefaultProbability, seed |-> 0, hashmap |-> FALSE]

\* skipListOptions.validate: TRUE when it returns an error
\* if o.prob < 0 || o.prob > 1 { return fmt.Errorf(...) }
validate(o) == FloatLess(o.prob, Zero) \/ FloatLess(One, o.prob)

\* ----------------------------------------------------------------- Init
Init ==
    /\ heap = EmptyMap
    /\ hashmap \in BOOLEAN
    /\ nodes = EmptyMap
    /\ header = NoLanes
    /\ last = Nil
    /\ length = 0
    /\ rng = 0
    /\ shadow = [k \in Keys |-> NoValue]
    /\ options = [DefaultOptions EXCEPT !.hashmap = hashmap]
    /\ phase = "built"
    /\ rwMutex = "nil"
    /\ threads = NoThreads
    /\ twin = NoTwin

\* ------------------------------------------------------------------ Set
\* mutant of SetRouteAround: the node found is not routed around
SetRouteAroundKeepsOld(st, c, level, node, key) ==
    LET n == Lane(st.header, st.heap, c, level) IN
    IF n # Nil /\ st.heap[n].key = key
    THEN [header |-> st.header,
          heap |-> [st.heap EXCEPT ![node].prev = st.heap[n].prev],
          cur |-> c,
          replaced |-> TRUE]
    ELSE [st EXCEPT !.cur = c]

\* if lanes[level] != nil && lanes[level].key == key { replaced = true;
\*   node.prev = lanes[level].prev; lanes[level] = lanes[level].lanes[level] }
SetRouteAround(st, c, level, node, key) ==
    LET n == Lane(st.header, st.heap, c, level) IN
    IF n # Nil /\ st.heap[n].key = key
    THEN LET hp1 == [st.heap EXCEPT ![node].prev = st.heap[n].prev]
             nxt == hp1[n].lanes[level]
         IN [header |-> SetLaneHeader(st.header, c, level, nxt),
             heap |-> SetLaneHeap(hp1, c, level, nxt),
             cur |-> c,
             replaced |-> TRUE]
    ELSE [st EXCEPT !.cur = c]

\* if level == 0 && node.lanes[0] != nil { if node.prev == nil {
\*   node.prev = node.lanes[0].prev }; node.lanes[0].prev = node }
SetLinkPrev(hp, level, node) ==
    IF level = 0 /\ hp[node].lanes[0] # Nil
    THEN LET succ == hp[node].lanes[0]
             hp1 == IF hp[node].prev = Nil
                    THEN [hp EXCEPT ![node].prev = hp[succ].prev]
                    ELSE hp
         IN [hp1 EXCEPT ![succ].prev = node]
    ELSE hp

\* mutant of SetSplice: the node is linked on one lane more than its level
SetSpliceOneMore(st, level, node, nodeLevel) ==
    IF level <= nodeLevel
    THEN LET succ == Lane(st.header, st.heap, st.cur, level)
             hp1 == [st.heap EXCEPT ![node].lanes[level] = succ]
             hp2 == SetLaneHeap(hp1, st.cur, level, node)
         IN [st EXCEPT !.header = SetLaneHeader(st.header, st.cur, level, node),
                       !.heap = SetLinkPrev(hp2, level, node)]
    ELSE st

\* if level < nodeLevel { node.lanes[level] = lanes[level]; lanes[level] = node; ... }
SetSplice(st, level, node, nodeLevel) ==
    IF level < nodeLevel
    THEN LET succ == Lane(st.header, st.heap, st.cur, level)
             hp1 == [st.heap EXCEPT ![node].lanes[level] = succ]
             hp2 == SetLaneHeap(hp1, st.cur, level, node)
         IN [st EXCEPT !.header = SetLaneHeader(st.header, st.cur, level, node),
                       !.heap = SetLinkPrev(hp2, level, node)]
    ELSE st

\* one iteration of the level loop of Set
SetLevel(st, level, node, key, nodeLevel) ==
    LET c == Advance(st.header, st.heap, st.cur, level, key) IN
    SetSplice(SetRouteAround(st, c, level, node, key), level, node, nodeLevel)

RECURSIVE SetDescent(_, _, _, _, _)
\* for level := MaxLevel - 1; level >= 0; level-- { ... }
SetDescent(st, level, node, key, nodeLevel) ==
    LET st1 == SetLevel(st, level, node, key, nodeLevel) IN
    IF level = 0 THEN st1 ELSE SetDescent(st1, level - 1, node, key, nodeLevel)

\* mutant of SetLength: the length grows on every insertion
SetLengthAlways(len, replaced) == len + 1

\* if !replaced { l.length++ }
SetLength(len, replaced) == IF replaced THEN len ELSE len + 1

\* l.last == nil || l.last.key < key
SetIsNewLast(hp, lst, key) == lst = Nil \/ hp[lst].key < key

\* mutant of SetFastPath: the hash map is never consulted
SetFastPathNever(key) == FALSE

\* if l.nodes != nil { if node = l.nodes[key]; node != nil { ... return node } }
SetFastPath(key) == hashmap /\ MapGet(nodes, key) # Nil

\* The list as a call leaves it, before garbage is reclaimed, and the node
\* the call returns.
Outcome(hdr, hp, nd, lst, len, draws, node) ==
    [header |-> hdr, heap |-> hp, nodes |-> nd, last |-> lst, length |-> len,
     rng |-> draws, node |-> node]

\* node.value = value; return node
SetReplaceValue(key, value) ==
    LET node == MapGet(nodes, key) IN
    Outcome(header, [heap EXCEPT ![node].value = value], nodes, last, length,
            rng, node)

SetInsert(key, value, word) ==
    LET nodeLevel == 1 + sampleCoinflipGeoDist32(MaxLevel - 1, word)
        node == Alloc(heap, key)
        st0 == [header |-> header,
                heap |-> HeapPut(heap, node, NewNode(key, value)),
                cur |-> Nil,
                replaced |-> FALSE]
        st == SetDescent(st0, MaxLevel - 1, node, key, nodeLevel)
        newLast == SetIsNewLast(st.heap, last, key)
    IN
    Outcome(st.header,
            IF newLast THEN [st.heap EXCEPT ![node].prev = last] ELSE st.heap,
            IF hashmap THEN MapPut(nodes, key, node) ELSE nodes,
            IF newLast THEN node ELSE last,
            SetLength(length, st.replaced),
            rng + 1,
            node)

\* what Set(key, value) does when the generator returns `word`
SetCall(key, value, word) ==
    IF SetFastPath(key) THEN SetReplaceValue(key, value)
    ELSE SetInsert(key, value, word)

\* a Set that creates a node draws from the generator: only while draws are left
SetEnabled(key) == SetFastPath(key) \/ rng < MaxDraws

\* the call's outcome becomes the state; unreferenced nodes are reclaimed
Return(r) ==
    /\ header' = r.header
    /\ nodes' = r.nodes
    /\ last' = r.last
    /\ length' = r.length
    /\ rng' = r.rng
    /\ heap' = Collect(r.heap, Roots(r.header, r.last, r.nodes))
    /\ UNCHANGED <<hashmap, options, phase, rwMutex, threads, twin>>

Set(key, value, word) ==
    /\ SetEnabled(key)
    /\ Return(SetCall(key, value, word))
    /\ shadow' = [shadow EXCEPT ![key] = value]

\* --------------------------------------------------------------- Remove
\* mutant of RemoveLevel: the node found is not routed around at lane 0
RemoveLevelKeepsLane0(st, level, key) ==
    LET c == Advance(st.header, st.heap, st.cur, level, key)
        n == Lane(st.header, st.heap, c, level)
    IN
    IF n # Nil /\ st.heap[n].key = key
    THEN LET nxt == IF level = 0 THEN n ELSE st.heap[n].lanes[level] IN
         [header |-> SetLaneHeader(st.header, c, level, nxt),
          heap |-> SetLaneHeap(st.heap, c, level, nxt),
          cur |-> c,
          node |-> n]
    ELSE [st EXCEPT !.cur = c]

\* mutant of RemoveLevel: the node the descent stops at is taken for the
\* node of the key
RemoveLevelAnyKey(st, level, key) ==
    LET c == Advance(st.header, st.heap, st.cur, level, key)
        n == Lane(st.header, st.heap, c, level)
    IN
    IF n # Nil
    THEN LET nxt == st.heap[n].lanes[level] IN
         [header |-> SetLaneHeader(st.header, c, level, nxt),
          heap |-> SetLaneHeap(st.heap, c, level, nxt),
          cur |-> c,
          node |-> n]
    ELSE [st EXCEPT !.cur = c]

\* if lanes[level] != nil && lanes[level].key == key {
\*   node = lanes[level]; lanes[level] = lanes[level].lanes[level] }
RemoveLevel(st, level, key) ==
    LET c == Advance(st.header, st.heap, st.cur, level, key)
        n == Lane(st.header, st.heap, c, level)
    IN
    IF n # Nil /\ st.heap[n].key = key
    THEN LET nxt == st.heap[n].lanes[level] IN
         [header |-> SetLaneHeader(st.header, c, level, nxt),
          heap |-> SetLaneHeap(st.heap, c, level, nxt),
          cur |-> c,
          node |-> n]
    ELSE [st EXCEPT !.cur = c]

RECURSIVE RemoveDescent(_, _, _)
RemoveDescent(st, level, key) ==
    LET st1 == RemoveLevel(st, level, key) IN
    IF level = 0 THEN st1 ELSE RemoveDescent(st1, level - 1, key)

\* mutant of RemoveShortCircuit: with the hash map no key is ever looked for
RemoveShortCircuitAlways(key) == hashmap

\* if l.nodes != nil { if _, ok := l.nodes[key]; !ok { return nil } }
RemoveShortCircuit(key) == hashmap /\ key \notin DOMAIN nodes

\* mutant of RemoveRelinkPrev: the successor keeps its prev
RemoveRelinkPrevNever(hp, node) == hp

\* if node.lanes[0] != nil { node.lanes[0].prev = node.prev }
RemoveRelinkPrev(hp, node) ==
    IF hp[node].lanes[0] # Nil
    THEN [hp EXCEPT ![hp[node].lanes[0]].prev = hp[node].prev]
    ELSE hp

\* if node.lanes[0] == nil { l.last = node.prev }
RemoveLast(hp, lst, node) ==
    IF hp[node].lanes[0] = Nil THEN hp[node].prev ELSE lst

RemoveCall(key) ==
    LET st0 == [header |-> header, heap |-> heap, cur |-> Nil, node |-> Nil]
        st == IF RemoveShortCircuit(key) THEN st0
              ELSE RemoveDescent(st0, MaxLevel - 1, key)
        node == st.node
    IN
    IF node # Nil
    THEN Outcome(st.header,
                 RemoveRelinkPrev(st.heap, node),
                 IF hashmap THEN MapDelete(nodes, key) ELSE nodes,
                 RemoveLast(st.heap, last, node),
                 length - 1,
                 rng,
                 node)
    ELSE Outcome(st.header, st.heap, nodes, last, length, rng, Nil)

Remove(key) ==
    /\ Return(RemoveCall(key))
    /\ shadow' = [shadow EXCEPT ![key] = NoValue]

\* ---------------------------------------------------------- RemoveFirst
\* mutant of RemoveFirstHeader: the lanes that begin with the node are cut
RemoveFirstHeaderCuts(hdr, hp, node) ==
    [L \in Levels |-> IF hdr[L] = node THEN Nil ELSE hdr[L]]

\* for level := range l.header { if l.header[level] == node {
\*   l.header[level] = node.lanes[level] } }
RemoveFirstHeader(hdr, hp, node) ==
    [L \in Levels |-> IF hdr[L] = node THEN hp[node].lanes[L] ELSE hdr[L]]

\* mutant of RemoveFirstLast: last is kept when the list becomes empty
RemoveFirstLastKeeps(lst, len) == lst

\* if l.length == 0 { l.last = nil } else if node.lanes[0] != nil {
\*   node.lanes[0].prev = nil }
RemoveFirstLast(lst, len) == IF len = 0 THEN Nil ELSE lst

RemoveFirstPrev(hp, node, len) ==
    IF len # 0 /\ hp[node].lanes[0] # Nil
    THEN [hp EXCEPT ![hp[node].lanes[0]].prev = Nil]
    ELSE hp

RemoveFirstCall ==
    LET node == header[0] IN
    IF node = Nil
    THEN Outcome(header, heap, nodes, last, length, rng, Nil)
    ELSE Outcome(RemoveFirstHeader(header, heap, node),
                 RemoveFirstPrev(heap, node, length - 1),
                 IF hashmap THEN MapDelete(nodes, heap[node].key) ELSE nodes,
                 RemoveFirstLast(last, length - 1),
                 length - 1,
                 rng,
                 node)

\* the keys with a value in the history, and the smallest of them
ShadowKeys == {k \in Keys : shadow[k] # NoValue}
ShadowMin == CHOOSE k \in ShadowKeys : \A x \in ShadowKeys : k <= x

RemoveFirst ==
    /\ Return(RemoveFirstCall)
    /\ shadow' = IF ShadowKeys = {} THEN shadow
                 ELSE [shadow EXCEPT ![ShadowMin] = NoValue]

\* ----------------------------------------------------------------- Next
Next ==
    \/ \E key \in Keys, value \in Values, word \in RngValues : Set(key, value, word)
    \/ \E key \in Keys : Remove(key)
    \/ RemoveFirst

Spec == Init /\ [][Next]_vars

\* the same list under the same calls, for what a call leaves as it was
SpecFrame == Init /\ [][Next]_vars

\* ------------------------------------------------------------ traversals
RECURSIVE WalkNext(_, _, _)
\* for n := from; n != nil; n = n.Next(), cut after `fuel` nodes
WalkNext(hp, from, fuel) ==
    IF from = Nil \/ fuel = 0 THEN <<>>
    ELSE <<from>> \o WalkNext(hp, NodeNext(hp, from), fuel - 1)

RECURSIVE WalkPrev(_, _, _)
\* for n := from; n != nil; n = n.Prev(), cut after `fuel` nodes
WalkPrev(hp, from, fuel) ==
    IF from = Nil \/ fuel = 0 THEN <<>>
    ELSE <<from>> \o WalkPrev(hp, NodePrev(hp, from), fuel - 1)

ForwardIn(hdr, hp) == WalkNext(hp, hdr[0], Cardinality(DOMAIN hp) + 1)
BackwardIn(lst, hp) == WalkPrev(hp, lst, Cardinality(DOMAIN hp) + 1)
Forward == ForwardIn(header, heap)
Backward == BackwardIn(last, heap)

Reverse(seq) == [i \in 1..Len(seq) |-> seq[Len(seq) + 1 - i]]
Range(seq) == {seq[i] : i \in 1..Len(seq)}
KeysOf(hp, seq) == [i \in 1..Len(seq) |-> hp[seq[i]].key]
Ascending(seq) == \A i \in 1..(Len(seq) - 1) : seq[i] < seq[i + 1]

\* ================================================= the Element variant
\* src/unnamed/part_005: the list of Elements.  An Element has as many lanes
\* as its level (a slice), the header has maxLevel lanes, and Set replaces
\* the value of an Element that exists, with or without the hash map.  The
\* list is built with the default probability and with maxLevel = MaxLevel.
\* The variables are those of the Node variant; `nodes` is SkipList.elements.
Uint64Bits == 64
FastLevelLimit == 65

\* A uint64 is kept as four 16-bit limbs, limb 0 the lowest.
Limbs == 0..((Uint64Bits \div HalfBits) - 1)
LimbOf(x, i) == IF i \in Limbs THEN x[i] ELSE 0
AllOnes64 == [i \in Limbs |-> Half - 1]

\* uint64(i) for an int 0 <= i < 2^31
ToUint64(i) ==
    [j \in Limbs |-> IF j = 0 THEN i % Half ELSE IF j = 1 THEN i \div Half ELSE 0]

\* x >> s on uint64: counts of 64 or more give 0
ShiftRight64(x, s) ==
    IF s >= Uint64Bits THEN [i \in Limbs |-> 0]
    ELSE LET q == s \div HalfBits
             r == s % HalfBits
         IN
         [i \in Limbs |->
             (LimbOf(x, i + q) \div Pow2(r))
             + (LimbOf(x, i + q + 1) % Pow2(r)) * Pow2(HalfBits - r)]

And64(a, b) == [i \in Limbs |-> And16(a[i], b[i], HalfBits)]

RECURSIVE TrailingOnes64(_, _)
\* for ; result&1 == 1; result >>= 1 { maxLevel++ }, counted from limb i
TrailingOnes64(result, i) ==
    IF i \notin Limbs THEN 0
    ELSE IF result[i] = Half - 1 THEN HalfBits + TrailingOnes64(result, i + 1)
    ELSE TrailingOnes16(result[i])

\* mutant of randomLevel: the mask keeps one bit more
randomLevelWideMask(maxLevel, word) ==
    1 + TrailingOnes64(
            And64(ShiftRight64(AllOnes64, Uint64Bits - maxLevel), word), 0)

\* randomLevel with prob == 0.5 and maxLevel <= 65:
\* result := (^uint64(0) >> (65 - uint64(l.maxLevel))) & l.rng.Uint64()
randomLevel(maxLevel, word) ==
    1 + TrailingOnes64(
            And64(ShiftRight64(AllOnes64, FastLevelLimit - maxLevel), word), 0)

\* l.rng.Float64() returns a number in [0, 1): 0 or 0.5 in this model.  A
\* generator is given by the pattern of numbers it returns, over and over.
Float64Values == {Float(0), Float(1)}
Float64Patterns == UNION {[1..n -> Float64Values] : n \in 1..MaxPattern}
Float64Draw(pattern, i) == pattern[((i - 1) % Len(pattern)) + 1]

RECURSIVE randomLevelFlips(_, _, _, _)
\* for ; maxLevel < l.maxLevel && l.rng.Float64() < l.prob; maxLevel++ {}
\* `level` is the local maxLevel, which starts at 1 and counts the draws
randomLevelFlips(level, maxLevel, prob, pattern) ==
    IF level < maxLevel /\ FloatLess(Float64Draw(pattern, level), prob)
    THEN randomLevelFlips(level + 1, maxLevel, prob, pattern)
    ELSE level

\* l.randomLevel() of a list built with the options o
randomLevelOf(o, word, pattern) ==
    IF o.prob = Float(1) /\ o.maxLevel <= FastLevelLimit
    THEN randomLevel(o.maxLevel, word)
    ELSE randomLevelFlips(1, o.maxLevel, o.prob, pattern)

\* the words the generator may return in this model
Rng64Values == {ToUint64(i) : i \in 0..MaxRng} \cup {AllOnes64}

RECURSIVE ElemDescend(_, _, _, _, _)
\* for level := l.maxLevel - 1; level >= 0; level-- {
\*   if lanes[level] != nil && lanes[level].key <= key {
\*     elem = lanes[level]; lanes = elem.lanes; level++ } }
ElemDescend(hdr, hp, cur, level, key) ==
    LET n == Lane(hdr, hp, cur, level) IN
    IF n # Nil /\ hp[n].key <= key
    THEN ElemDescend(hdr, hp, n, level, key)
    ELSE IF level = 0 THEN cur
    ELSE ElemDescend(hdr, hp, cur, level - 1, key)

\* SkipList.get
ElemGetIn(hdr, hp, nd, hm, key) ==
    IF hm THEN MapGet(nd, key)
    ELSE LET elem == ElemDescend(hdr, hp, Nil, MaxLevel - 1, key) IN
         IF elem # Nil /\ hp[elem].key # key THEN Nil ELSE elem

\* SkipList.fastGet
fastGet(nd, hm, key) == IF hm THEN MapGet(nd, key) ELSE Nil

\* mutant of AtOrBeforeIn: the hash map is not consulted and the descent
\* stops at the keys below `key`
AtOrBeforeStrict(hdr, hp, nd, hm, key) ==
    ElemDescend(hdr, hp, Nil, MaxLevel - 1, key - 1)

AtOrBeforeIn(hdr, hp, nd, hm, key) ==
    LET elem == fastGet(nd, hm, key) IN
    IF elem # Nil THEN elem
    ELSE ElemDescend(hdr, hp, Nil, MaxLevel - 1, key)

\* mutant of AtOrAfterIn: the element found by the descent is returned even
\* when its key is below `key`
AtOrAfterNoStep(hdr, hp, nd, hm, key) ==
    IF hdr[0] # Nil /\ hp[hdr[0]].key >= key THEN hdr[0]
    ELSE LET elem == fastGet(nd, hm, key) IN
         IF elem # Nil THEN elem
         ELSE ElemDescend(hdr, hp, Nil, MaxLevel - 1, key)

AtOrAfterIn(hdr, hp, nd, hm, key) ==
    IF hdr[0] # Nil /\ hp[hdr[0]].key >= key THEN hdr[0]
    ELSE LET elem == fastGet(nd, hm, key) IN
         IF elem # Nil THEN elem
         ELSE LET e == ElemDescend(hdr, hp, Nil, MaxLevel - 1, key) IN
              IF e # Nil /\ hp[e].key < key THEN hp[e].lanes[0] ELSE e

\* mutant of BeforeIn: the element found is stepped back from whatever its key
BeforeAlwaysPrev(hdr, hp, nd, hm, key) ==
    LET elem == AtOrBeforeIn(hdr, hp, nd, hm, key) IN
    IF elem # Nil THEN NodePrev(hp, elem) ELSE elem

\* elem = l.AtOrBefore(key); if elem != nil && elem.key == key { elem = elem.Prev() }
BeforeIn(hdr, hp, nd, hm, key) ==
    LET elem == AtOrBeforeIn(hdr, hp, nd, hm, key) IN
    IF elem # Nil /\ hp[elem].key = key THEN NodePrev(hp, elem) ELSE elem

\* elem = l.AtOrAfter(key); if elem != nil && elem.key == key { elem = elem.Next() }
AfterIn(hdr, hp, nd, hm, key) ==
    LET elem == AtOrAfterIn(hdr, hp, nd, hm, key) IN
    IF elem # Nil /\ hp[elem].key = key THEN NodeNext(hp, elem) ELSE elem

ElemGet(key) == ElemGetIn(header, heap, nodes, hashmap, key)
AtOrBefore(key) == AtOrBeforeIn(header, heap, nodes, hashmap, key)
AtOrAfter(key) == AtOrAfterIn(header, heap, nodes, hashmap, key)
Before(key) == BeforeIn(header, heap, nodes, hashmap, key)
After(key) == AfterIn(header, heap, nodes, hashmap, key)

\* ---------------------------------------------------- Element variant: New
DefaultMaxLevel == 32

\* o := skipListOptions{maxLevel: DefaultMaxLevel, prob: DefaultProbability,
\*   seed: time.Now().UnixNano(), threadSafe: DefaultThreadsafe,
\*   hashmap: DefaultHashmap}
ElemDefaultOptions ==
    [maxLevel |-> DefaultMaxLevel, prob |-> DefaultProbability, seed |-> 0,
     threadSafe |-> FALSE, hashmap |-> TRUE]

\* skipListOptions.validate of the Element variant: TRUE when it returns an
\* error
ElemValidate(o) ==
    \/ o.maxLevel < 1
    \/ FloatLess(o.prob, Zero) \/ FloatLess(One, o.prob)

ElemInit ==
    /\ heap = EmptyMap
    /\ hashmap \in BOOLEAN
    /\ nodes = EmptyMap
    /\ header = [L \in Levels |-> Nil]
    /\ last = Nil
    /\ length = 0
    /\ rng = 0
    /\ shadow = [k \in Keys |-> NoValue]
    /\ options = [ElemDefaultOptions EXCEPT !.maxLevel = MaxLevel,
                                            !.hashmap = hashmap]
    /\ phase = "built"
    /\ rwMutex = "nil"
    /\ threads = NoThreads
    /\ twin = NoTwin

\* &Element[K, V]{key, value, lanes: make([]*Element[K, V], maxLevel), prev: l.last}
NewElement(key, value, maxLevel, lst) ==
    [key |-> key, value |-> value,
     lanes |-> [L \in 0..(maxLevel - 1) |-> Nil], prev |-> lst]

RECURSIVE ElemAdvance(_, _, _, _, _, _)
\* for next != nil && next.key < key { lanes, next = next.lanes, lanes[level] }
\* both right-hand sides are read before either variable is assigned
ElemAdvance(hdr, hp, cur, next, level, key) ==
    IF next # Nil /\ hp[next].key < key
    THEN ElemAdvance(hdr, hp, next, Lane(hdr, hp, cur, level), level, key)
    ELSE [cur |-> cur, next |-> next]

\* ---------------------------------------------------- Element variant: Set
\* if level == 0 { if elem.lanes[0] != nil {
\*   elem.prev = elem.lanes[0].prev; elem.lanes[0].prev = elem } }
ElemSetLinkPrev(hp, level, elem) ==
    IF level = 0 /\ hp[elem].lanes[0] # Nil
    THEN LET succ == hp[elem].lanes[0] IN
         [hp EXCEPT ![elem].prev = hp[succ].prev, ![succ].prev = elem]
    ELSE hp

ElemSetLevel(st, level, elem, key, maxLevel) ==
    LET a == ElemAdvance(st.header, st.heap, st.cur,
                         Lane(st.header, st.heap, st.cur, level), level, key)
        c == a.cur
    IN
    IF level < maxLevel
    THEN LET hp1 == [st.heap EXCEPT
                        ![elem].lanes[level] = Lane(st.header, st.heap, c, level)]
         IN
         [header |-> SetLaneHeader(st.header, c, level, elem),
          heap |-> ElemSetLinkPrev(SetLaneHeap(hp1, c, level, elem), level, elem),
          cur |-> c]
    ELSE [st EXCEPT !.cur = c]

RECURSIVE ElemSetDescent(_, _, _, _, _)
ElemSetDescent(st, level, elem, key, maxLevel) ==
    LET st1 == ElemSetLevel(st, level, elem, key, maxLevel) IN
    IF level = 0 THEN st1 ELSE ElemSetDescent(st1, level - 1, elem, key, maxLevel)

\* elem := l.get(key); if elem != nil { elem.key = key; elem.value = value; return elem }
ElemSetReplaceValue(elem, key, value) ==
    Outcome(header, [heap EXCEPT ![elem].key = key, ![elem].value = value],
            nodes, last, length, rng, elem)

ElemSetInsert(key, value, word) ==
    LET maxLevel == randomLevel(MaxLevel, word)
        elem == Alloc(heap, key)
        st0 == [header |-> header,
                heap |-> HeapPut(heap, elem, NewElement(key, value, maxLevel, last)),
                cur |-> Nil]
        st == ElemSetDescent(st0, MaxLevel - 1, elem, key, maxLevel)
    IN
    Outcome(st.header,
            st.heap,
            IF hashmap THEN MapPut(nodes, key, elem) ELSE nodes,
            IF NodeNext(st.heap, elem) = Nil THEN elem ELSE last,
            length + 1,
            rng + 1,
            elem)

ElemSetCall(key, value, word) ==
    LET elem == ElemGet(key) IN
    IF elem # Nil THEN ElemSetReplaceValue(elem, key, value)
    ELSE ElemSetInsert(key, value, word)

\* a Set that creates an Element draws from the generator: only while draws
\* are left
ElemSetEnabled(key) == ElemGet(key) # Nil \/ rng < MaxDraws

ElemSet(key, value, word) ==
    /\ ElemSetEnabled(key)
    /\ Return(ElemSetCall(key, value, word))
    /\ shadow' = [shadow EXCEPT ![key] = value]

\* ------------------------------------------------- Element variant: Remove
\* if next != nil && next.key == key { lanes[level] = next.lanes[level]
\*   if level == 0 { elem, next = next, next.Next()
\*     if next != nil { next.prev = elem.prev } } }
ElemRemoveLevel(st, level, key) ==
    LET a == ElemAdvance(st.header, st.heap, st.cur,
                         Lane(st.header, st.heap, st.cur, level), level, key)
        c == a.cur
        next == a.next
    IN
    IF next # Nil /\ st.heap[next].key = key
    THEN LET hdr1 == SetLaneHeader(st.header, c, level, st.heap[next].lanes[level])
             hp1 == SetLaneHeap(st.heap, c, level, st.heap[next].lanes[level])
             after == NodeNext(hp1, next)
         IN
         IF level = 0
         THEN [header |-> hdr1,
               heap |-> IF after # Nil
                        THEN [hp1 EXCEPT ![after].prev = hp1[next].prev]
                        ELSE hp1,
               cur |-> c,
               elem |-> next]
         ELSE [header |-> hdr1, heap |-> hp1, cur |-> c, elem |-> st.elem]
    ELSE [st EXCEPT !.cur = c]

RECURSIVE ElemRemoveDescent(_, _, _)
ElemRemoveDescent(st, level, key) ==
    LET st1 == ElemRemoveLevel(st, level, key) IN
    IF level = 0 THEN st1 ELSE ElemRemoveDescent(st1, level - 1, key)

\* if l.elements != nil { if _, ok := l.elements[key]; !ok { return } }
ElemRemoveShortCircuit(key) == hashmap /\ key \notin DOMAIN nodes

\* if l.last.key == key { l.last = l.last.Prev() }
ElemRemoveLast(hp, lst, key) ==
    IF hp[lst].key = key THEN NodePrev(hp, lst) ELSE lst

ElemRemoveCall(key) ==
    LET st0 == [header |-> header, heap |-> heap, cur |-> Nil, elem |-> Nil]
        st == IF ElemRemoveShortCircuit(key) THEN st0
              ELSE ElemRemoveDescent(st0, MaxLevel - 1, key)
        elem == st.elem
    IN
    IF elem # Nil
    THEN LET hp1 == [st.heap EXCEPT ![elem].lanes[0] = Nil] IN
         Outcome(st.header,
                 hp1,
                 IF hashmap THEN MapDelete(nodes, key) ELSE nodes,
                 ElemRemoveLast(hp1, last, key),
                 length - 1,
                 rng,
                 elem)
    ELSE Outcome(st.header, st.heap, nodes, last, length, rng, Nil)

ElemRemove(key) ==
    /\ Return(ElemRemoveCall(key))
    /\ shadow' = [shadow EXCEPT ![key] = NoValue]

\* -------------------------------------------- Element variant: RemoveFirst
\* for level, elem := range l.header {
\*   if elem != nil && elem.key == removed.key {
\*     l.header[level] = removed.lanes[level] } }
ElemRemoveFirstHeader(hdr, hp, removed) ==
    [L \in Levels |->
        IF hdr[L] # Nil /\ hp[hdr[L]].key = hp[removed].key
        THEN hp[removed].lanes[L]
        ELSE hdr[L]]

\* if removed.lanes[0] != nil { removed.lanes[0].prev = nil }
\* removed.lanes[0] = nil
ElemRemoveFirstUnlink(hp, removed) ==
    LET hp1 == IF hp[removed].lanes[0] # Nil
               THEN [hp EXCEPT ![hp[removed].lanes[0]].prev = Nil]
               ELSE hp
    IN
    [hp1 EXCEPT ![removed].lanes[0] = Nil]

ElemRemoveFirstCall ==
    LET removed == First IN
    IF removed = Nil
    THEN Outcome(header, heap, nodes, last, length, rng, Nil)
    ELSE Outcome(ElemRemoveFirstHeader(header, heap, removed),
                 ElemRemoveFirstUnlink(heap, removed),
                 IF hashmap THEN MapDelete(nodes, heap[removed].key) ELSE nodes,
                 IF length - 1 = 0 THEN Nil ELSE last,
                 length - 1,
                 rng,
                 removed)

ElemRemoveFirst ==
    /\ Return(ElemRemoveFirstCall)
    /\ shadow' = IF ShadowKeys = {} THEN shadow
                 ELSE [shadow EXCEPT ![ShadowMin] = NoValue]

\* --------------------------------------------------- Element variant: Next
ElemNext ==
    \/ \E key \in Keys, value \in Values, word \in Rng64Values :
          ElemSet(key, value, word)
    \/ \E key \in Keys : ElemRemove(key)
    \/ ElemRemoveFirst

SpecElement == ElemInit /\ [][ElemNext]_vars

\* ======================================================== construction
\* New, from its defaults through the options applied to them to the list
\* it returns or the panic it raises, for the Node variant (src/skiplist.go)
\* and for the Element variant (src/unnamed/part_005).  Before New returns
\* there is no list: no header array exists.
IsElementOptions(o) == "maxLevel" \in DOMAIN o

InitNew ==
    /\ options \in {DefaultOptions, ElemDefaultOptions}
    /\ phase = "options"
    /\ heap = EmptyMap
    /\ hashmap = FALSE
    /\ nodes = EmptyMap
    /\ header = EmptyMap
    /\ last = Nil
    /\ length = 0
    /\ rng = 0
    /\ shadow = [k \in Keys |-> NoValue]
    /\ rwMutex = "nil"
    /\ threads = NoThreads
    /\ twin = NoTwin

\* for _, opt := range opts { opt.apply(&o) }: an option changes `o` only
list == <<heap, nodes, hashmap, header, last, length, rng, shadow, rwMutex,
         threads, twin>>

\* withSeed.apply
WithSeed(seed) ==
    /\ phase = "options"
    /\ options' = [options EXCEPT !.seed = seed]
    /\ UNCHANGED <<list, phase>>

\* withProbability.apply
WithProbability(prob) ==
    /\ phase = "options"
    /\ options' = [options EXCEPT !.prob = prob]
    /\ UNCHANGED <<list, phase>>

\* withHashmap.apply (Node variant)
WithHashmap ==
    /\ phase = "options"
    /\ ~IsElementOptions(options)
    /\ options' = [options EXCEPT !.hashmap = TRUE]
    /\ UNCHANGED <<list, phase>>

\* withMaxLevel.apply (Element variant)
WithMaxLevel(maxLevel) ==
    /\ phase = "options"
    /\ IsElementOptions(options)
    /\ options' = [options EXCEPT !.maxLevel = maxLevel]
    /\ UNCHANGED <<list, phase>>

\* withThreadSafe.apply (Element variant)
WithThreadSafe ==
    /\ phase = "options"
    /\ IsElementOptions(options)
    /\ options' = [options EXCEPT !.threadSafe = TRUE]
    /\ UNCHANGED <<list, phase>>

\* WithoutHashmap() returns &withThreadSafe{}: its apply is withThreadSafe's
WithoutHashmap ==
    /\ phase = "options"
    /\ IsElementOptions(options)
    /\ options' = [options EXCEPT !.threadSafe = TRUE]
    /\ UNCHANGED <<list, phase>>

\* if err := o.validate(); err != nil { panic(err) }
Panic ==
    /\ phase' = "panic"
    /\ UNCHANGED <<list, options>>

\* return &SkipList[K, V]{...} with a header of the given lanes
Built(lanes) ==
    /\ phase' = "built"
    /\ hashmap' = options.hashmap
    /\ nodes' = EmptyMap
    /\ header' = [L \in lanes |-> Nil]
    /\ last' = Nil
    /\ length' = 0
    /\ rng' = 0
    /\ heap' = EmptyMap
    /\ rwMutex' = IF IsElementOptions(options) /\ options.threadSafe
                  THEN "unlocked" ELSE "nil"
    /\ UNCHANGED <<shadow, options, threads, twin>>

\* New of the Node variant
New ==
    /\ phase = "options"
    /\ ~IsElementOptions(options)
    /\ IF validate(options) THEN Panic ELSE Built(Levels)

\* New of the Element variant: header: make([]*Element[K, V], o.maxLevel)
ElemNew ==
    /\ phase = "options"
    /\ IsElementOptions(options)
    /\ IF ElemValidate(options) THEN Panic
       ELSE Built(0..(options.maxLevel - 1))

\* the values given to WithMaxLevel in this model
MaxLevels == ((0 - 1)..MaxLevel) \cup {FastLevelLimit, FastLevelLimit + 1}

NextNew ==
    \/ \E seed \in Seeds : WithSeed(seed)
    \/ \E prob \in Probabilities : WithProbability(prob)
    \/ WithHashmap
    \/ \E maxLevel \in MaxLevels : WithMaxLevel(maxLevel)
    \/ WithThreadSafe
    \/ WithoutHashmap
    \/ New
    \/ ElemNew

SpecNew == InitNew /\ [][NextNew]_vars

\* ================================================ configured probability
\* src/skiplist.go: the list New returns for WithProbability(prob), for the
\* probabilities validate accepts; New stores prob in the list.
ValidProbabilities == {p \in Probabilities : ~validate([DefaultOptions EXCEPT !.prob = p])}

InitProbability ==
    /\ heap = EmptyMap
    /\ hashmap \in BOOLEAN
    /\ nodes = EmptyMap
    /\ header = NoLanes
    /\ last = Nil
    /\ length = 0
    /\ rng = 0
    /\ shadow = [k \in Keys |-> NoValue]
    /\ options \in {[DefaultOptions EXCEPT !.hashmap = hashmap, !.prob = p] :
                      p \in ValidProbabilities}
    /\ phase = "built"
    /\ rwMutex = "nil"
    /\ threads = NoThreads
    /\ twin = NoTwin

SpecProbability == InitProbability /\ [][Next]_vars

\* ============================================================ goroutines
\* src/unnamed/part_005 built with WithThreadSafe(): one list shared by a
\* goroutine that calls Set, Remove and RemoveFirst and a goroutine that
\* calls the methods that read.  Lock is granted while nobody holds the
\* mutex and RLock while no writer holds it; writers exclude one another,
\* so one writing goroutine stands for all of them.  A call that links or
\* unlinks an element is taken in two steps: Lock with the writes of its
\* loop over the lanes, then its remaining writes with the deferred Unlock.
\* A call that writes once or not at all is one step.
InitThreads ==
    /\ heap = EmptyMap
    /\ hashmap \in BOOLEAN
    /\ nodes = EmptyMap
    /\ header = [L \in Levels |-> Nil]
    /\ last = Nil
    /\ length = 0
    /\ rng = 0
    /\ shadow = [k \in Keys |-> NoValue]
    /\ options = [ElemDefaultOptions EXCEPT !.maxLevel = MaxLevel,
                                            !.hashmap = hashmap,
                                            !.threadSafe = TRUE]
    /\ phase = "built"
    /\ rwMutex = "unlocked"
    /\ threads = NoThreads
    /\ twin = NoTwin

\* the elements the goroutines hold in local variables
Held(th) == {th.writer.elem, th.reader.elem} \ {Nil}

\* the key of an element, 0 for nil
KeyOf(hp, elem) == IF elem = Nil THEN 0 ELSE hp[elem].key

\* the keys of the list (hdr, hp), and among them the greatest below `key`
\* and the smallest above it, 0 when there is none
KeysIn(hdr, hp) == {hp[n].key : n \in Range(ForwardIn(hdr, hp))}
StrictFloor(hdr, hp, key) ==
    LET S == {x \in KeysIn(hdr, hp) : x < key} IN
    IF S = {} THEN 0 ELSE CHOOSE x \in S : \A y \in S : y <= x
StrictCeiling(hdr, hp, key) ==
    LET S == {x \in KeysIn(hdr, hp) : x > key} IN
    IF S = {} THEN 0 ELSE CHOOSE x \in S : \A y \in S : x <= y

\* history: while a Before or After is in progress, the reader's `valid`
\* collects the key that is the right answer for the list as it is after
\* each step
Witnessed(rd, hdr, hp) ==
    IF rd.pc \in {"rlocked", "found"} /\ rd.method \in {"Before", "After"}
    THEN [rd EXCEPT !.valid = @ \cup
            {IF rd.method = "Before" THEN StrictFloor(hdr, hp, rd.key)
             ELSE StrictCeiling(hdr, hp, rd.key)}]
    ELSE rd

\* a step leaves the list, the mutex and the goroutines as given; elements
\* that neither the list nor a goroutine references are reclaimed
Publish(hdr, hp, nd, lst, len, draws, mutex, wr, rd) ==
    LET th == [writer |-> wr, reader |-> Witnessed(rd, hdr, hp)] IN
    /\ header' = hdr
    /\ nodes' = nd
    /\ last' = lst
    /\ length' = len
    /\ rng' = draws
    /\ rwMutex' = mutex
    /\ threads' = th
    /\ heap' = Collect(hp, Roots(hdr, lst, nd) \cup Held(th))
    /\ UNCHANGED <<hashmap, options, phase, twin>>

\* ------------------------------------------------ the writing goroutine
\* No lock and no link depends on a value: the writer sets one value.
WriterValues == {"a"}

\* Set up to the end of its loop over the lanes
ElemSetLinked(key, value, word) ==
    LET maxLevel == randomLevel(MaxLevel, word)
        elem == Alloc(heap, key)
        st0 == [header |-> header,
                heap |-> HeapPut(heap, elem, NewElement(key, value, maxLevel, last)),
                cur |-> Nil]
        st == ElemSetDescent(st0, MaxLevel - 1, elem, key, maxLevel)
    IN [header |-> st.header, heap |-> st.heap, elem |-> elem]

\* l.rwMutex.Lock(); elem := l.get(key); then the replacement of the value,
\* or the new element and the loop that links it
WriterSet(key, value, word) ==
    /\ rwMutex = "unlocked"
    /\ threads.writer.pc = "idle"
    /\ ElemSetEnabled(key)
    /\ IF ElemGet(key) # Nil
       THEN LET r == ElemSetReplaceValue(ElemGet(key), key, value) IN
            /\ Publish(r.header, r.heap, r.nodes, r.last, r.length, r.rng,
                       "unlocked", WriterIdle, threads.reader)
            /\ shadow' = [shadow EXCEPT ![key] = value]
       ELSE LET st == ElemSetLinked(key, value, word) IN
            /\ Publish(st.header, st.heap, nodes, last, length, rng + 1,
                       "locked",
                       [pc |-> "Set", key |-> key, elem |-> st.elem],
                       threads.reader)
            /\ UNCHANGED shadow

\* if elem.Next() == nil { l.last = elem }; if l.elements != nil {
\*   l.elements[key] = elem }; l.length++; return elem (Unlock)
WriterSetReturn ==
    /\ threads.writer.pc = "Set"
    /\ LET elem == threads.writer.elem
           key == threads.writer.key
       IN
       /\ Publish(header, heap,
                  IF hashmap THEN MapPut(nodes, key, elem) ELSE nodes,
                  IF NodeNext(heap, elem) = Nil THEN elem ELSE last,
                  length + 1, rng, "unlocked", WriterIdle, threads.reader)
       /\ shadow' = [shadow EXCEPT ![key] = heap[elem].value]

\* l.rwMutex.Lock(); the short circuit and the loop that unlinks the element
WriterRemove(key) ==
    /\ rwMutex = "unlocked"
    /\ threads.writer.pc = "idle"
    /\ LET st0 == [header |-> header, heap |-> heap, cur |-> Nil, elem |-> Nil]
           st == IF ElemRemoveShortCircuit(key) THEN st0
                 ELSE ElemRemoveDescent(st0, MaxLevel - 1, key)
       IN
       IF st.elem = Nil
       THEN Publish(st.header, st.heap, nodes, last, length, rng, "unlocked",
                    WriterIdle, threads.reader)
       ELSE Publish(st.header, st.heap, nodes, last, length, rng, "locked",
                    [pc |-> "Remove", key |-> key, elem |-> st.elem],
                    threads.reader)
    /\ UNCHANGED shadow

\* if elem != nil { l.length--; elem.lanes[0] = nil; delete(l.elements, key);
\*   if l.last.key == key { l.last = l.last.Prev() } }; return (Unlock)
WriterRemoveReturn ==
    /\ threads.writer.pc = "Remove"
    /\ LET elem == threads.writer.elem
           key == threads.writer.key
           hp1 == [heap EXCEPT ![elem].lanes[0] = Nil]
       IN
       /\ Publish(header, hp1,
                  IF hashmap THEN MapDelete(nodes, key) ELSE nodes,
                  ElemRemoveLast(hp1, last, key),
                  length - 1, rng, "unlocked", WriterIdle, threads.reader)
       /\ shadow' = [shadow EXCEPT ![key] = NoValue]

\* l.rwMutex.Lock(); removed = l.First(); if removed == nil { return };
\* the loop over l.header
WriterRemoveFirst ==
    /\ rwMutex = "unlocked"
    /\ threads.writer.pc = "idle"
    /\ IF First = Nil
       THEN Publish(header, heap, nodes, last, length, rng, "unlocked",
                    WriterIdle, threads.reader)
       ELSE Publish(ElemRemoveFirstHeader(header, heap, First), heap, nodes,
                    last, length, rng, "locked",
                    [pc |-> "RemoveFirst", key |-> heap[First].key,
                     elem |-> First],
                    threads.reader)
    /\ UNCHANGED shadow

\* delete(l.elements, removed.key); l.length--; if l.length == 0 {
\*   l.last = nil }; the prev of the successor and removed.lanes[0] (Unlock)
WriterRemoveFirstReturn ==
    /\ threads.writer.pc = "RemoveFirst"
    /\ LET removed == threads.writer.elem
           key == threads.writer.key
       IN
       /\ Publish(header, ElemRemoveFirstUnlink(heap, removed),
                  IF hashmap THEN MapDelete(nodes, key) ELSE nodes,
                  IF length - 1 = 0 THEN Nil ELSE last,
                  length - 1, rng, "unlocked", WriterIdle, threads.reader)
       /\ shadow' = [shadow EXCEPT ![key] = NoValue]

\* ------------------------------------------------ the reading goroutine
\* the methods that take the read lock themselves, and those whose first
\* statement is a call of one that does
LockedMethods == {"Length", "Get", "Contains", "AtOrBefore", "AtOrAfter"}
LockingMethods == LockedMethods \cup {"Before", "After"}
KeysFor(method) == IF method = "Length" THEN {0} ELSE Keys

\* whether a read made now, without the lock, falls between the writes of
\* a call
Unlocked == IF threads.writer.pc = "idle" THEN "unlocked" ELSE "torn"

\* l.rwMutex.RLock(), of the method or of the AtOrBefore / AtOrAfter that
\* Before / After calls
ReaderRLock(method, key) ==
    /\ rwMutex = "unlocked"
    /\ threads.reader.pc \in {"idle", "done"}
    /\ Publish(header, heap, nodes, last, length, rng, "rlocked",
               threads.writer,
               [pc |-> "rlocked", method |-> method, key |-> key,
                elem |-> Nil, result |-> 0, access |-> "none", valid |-> {}])
    /\ UNCHANGED shadow

\* what the method returns for the list it reads under the lock
Read(method, key) ==
    CASE method = "Length" -> length
      [] method = "Get" -> KeyOf(heap, ElemGet(key))
      [] method = "Contains" -> IF ElemGet(key) # Nil THEN 1 ELSE 0
      [] method = "AtOrBefore" -> KeyOf(heap, AtOrBefore(key))
      [] method = "AtOrAfter" -> KeyOf(heap, AtOrAfter(key))

\* the body under the lock and the deferred RUnlock: the method returns, or
\* Before / After has the element that AtOrBefore / AtOrAfter returned
ReaderRUnlock ==
    /\ threads.reader.pc = "rlocked"
    /\ LET rd == threads.reader IN
       IF rd.method \in LockedMethods
       THEN Publish(header, heap, nodes, last, length, rng, "unlocked",
                    threads.writer,
                    [rd EXCEPT !.pc = "done", !.access = "locked",
                               !.result = Read(rd.method, rd.key)])
       ELSE Publish(header, heap, nodes, last, length, rng, "unlocked",
                    threads.writer,
                    [rd EXCEPT !.pc = "found", !.access = "locked",
                               !.elem = IF rd.method = "Before"
                                        THEN AtOrBefore(rd.key)
                                        ELSE AtOrAfter(rd.key)])
    /\ UNCHANGED shadow

\* if elem != nil && elem.key == key { elem = elem.Prev() } of Before, with
\* elem.Next() for After; return
ReaderLink ==
    /\ threads.reader.pc = "found"
    /\ LET rd == threads.reader
           follows == rd.elem # Nil /\ heap[rd.elem].key = rd.key
           elem == IF ~follows THEN rd.elem
                   ELSE IF rd.method = "Before" THEN NodePrev(heap, rd.elem)
                   ELSE NodeNext(heap, rd.elem)
       IN
       Publish(header, heap, nodes, last, length, rng, rwMutex,
               threads.writer,
               [rd EXCEPT !.pc = "done", !.elem = Nil,
                          !.result = KeyOf(heap, elem),
                          !.access = IF follows THEN Unlocked ELSE @])
    /\ UNCHANGED shadow

\* return l.header[0]
ReaderFirst ==
    /\ threads.reader.pc \in {"idle", "done"}
    /\ Publish(header, heap, nodes, last, length, rng, rwMutex,
               threads.writer,
               [ReaderIdle EXCEPT !.pc = "done", !.method = "First",
                                  !.result = KeyOf(heap, First),
                                  !.access = Unlocked])
    /\ UNCHANGED shadow

\* return l.last
ReaderLast ==
    /\ threads.reader.pc \in {"idle", "done"}
    /\ Publish(header, heap, nodes, last, length, rng, rwMutex,
               threads.writer,
               [ReaderIdle EXCEPT !.pc = "done", !.method = "Last",
                                  !.result = KeyOf(heap, Last),
                                  !.access = Unlocked])
    /\ UNCHANGED shadow

NextThreads ==
    \/ \E key \in Keys, value \in WriterValues, word \in Rng64Values :
          WriterSet(key, value, word)
    \/ WriterSetReturn
    \/ \E key \in Keys : WriterRemove(key)
    \/ WriterRemoveReturn
    \/ WriterRemoveFirst
    \/ WriterRemoveFirstReturn
    \/ \E method \in LockingMethods : \E key \in KeysFor(method) :
          ReaderRLock(method, key)
    \/ ReaderRUnlock
    \/ ReaderLink
    \/ ReaderFirst
    \/ ReaderLast

SpecThreads == InitThreads /\ [][NextThreads]_vars

\* ============================================================= two lists
\* src/skiplist.go: two lists, each returned by a call of New of its own,
\* that are given the same calls of Set, Remove and RemoveFirst.  The
\* variables hold the list whose turn it is and `twin` holds the other one:
\* a call is made on the first list and the lists change places, the same
\* call is made on the second and they change places again.  A generator is
\* known by the seed of its source: a word drawn from a source is recorded
\* with its position for as long as the other list, if it has the same
\* source, has not drawn at that position, where it gets the same word.

\* time.Now().UnixNano() at the first and at the second call of New
Times == <<MaxSeed + 1, MaxSeed + 2>>

\* mutant of withSeedApply: the seed that is given is dropped
withSeedApplyKeepsClock(o, seed) == o

\* withSeed.apply, withHashmap.apply
withSeedApply(o, seed) == [o EXCEPT !.seed = seed]
withHashmapApply(o) == [o EXCEPT !.hashmap = TRUE]

\* the options given to New: WithSeed(seed) or no seed, WithHashmap() or not
Givens ==
    {[seeded |-> TRUE, seed |-> seed, hashmap |-> hm] :
        seed \in Seeds, hm \in BOOLEAN}
    \cup {[seeded |-> FALSE, seed |-> 0, hashmap |-> hm] : hm \in BOOLEAN}

\* o := skipListOptions{prob: DefaultProbability, seed: time.Now().UnixNano()}
\* for _, opt := range opts { opt.apply(&o) }
NewOptions(now, given) ==
    LET o0 == [DefaultOptions EXCEPT !.seed = now]
        o1 == IF given.seeded THEN withSeedApply(o0, given.seed) ELSE o0
    IN
    IF given.hashmap THEN withHashmapApply(o1) ELSE o1

\* rng: rand.New(rand.NewSource(o.seed))
Source(o) == o.seed
Sources == Seeds \cup {Times[1], Times[2]}

\* a SkipList with the options it was built with
ListOf(hdr, hp, nd, lst, len, draws, o) ==
    [header |-> hdr, heap |-> hp, nodes |-> nd, last |-> lst, length |-> len,
     rng |-> draws, options |-> o]

\* return &SkipList[K, V]{nodes: nodes, prob: o.prob, rng: ...}
NewList(o) == ListOf(NoLanes, EmptyMap, EmptyMap, Nil, 0, 0, o)

\* the first and the second list are returned by New for the given options
TwinBuilt(first, second) ==
    /\ options = NewOptions(Times[1], first)
    /\ hashmap = options.hashmap
    /\ heap = EmptyMap
    /\ nodes = EmptyMap
    /\ header = NoLanes
    /\ last = Nil
    /\ length = 0
    /\ rng = 0
    /\ shadow = [k \in Keys |-> NoValue]
    /\ phase = "built"
    /\ rwMutex = "nil"
    /\ threads = NoThreads
    /\ twin = [list |-> NewList(NewOptions(Times[2], second)),
               pending |-> <<>>,
               stream |-> [s \in Sources |-> EmptyMap],
               given |-> <<first, second>>]

\* one list is built with the hash map and one without it, with or without
\* seeds of their own
InitTwin ==
    \E first, second \in Givens :
        /\ first.hashmap
        /\ ~second.hashmap
        /\ first.seeded = second.seeded
        /\ first.seeded => first.seed # second.seed
        /\ TwinBuilt(first, second)

\* the two lists are built with the same seed and the same options
InitSameSeed ==
    \E given \in Givens :
        /\ given.seeded
        /\ TwinBuilt(given, given)

\* l.rng.Uint32() of the list whose turn it is returns `word`
Drawable(word) ==
    LET drawn == twin.stream[Source(options)] IN
    (rng + 1) \in DOMAIN drawn => drawn[rng + 1] = word

\* the words recorded once the list has drawn `word`
StreamWith(word) ==
    LET source == Source(options)
        drawn == twin.stream[source]
        at == rng + 1
    IN
    IF at \in DOMAIN drawn
    THEN [twin.stream EXCEPT ![source] = [i \in DOMAIN drawn \ {at} |-> drawn[i]]]
    ELSE IF Source(twin.list.options) = source /\ twin.list.rng < at
    THEN [twin.stream EXCEPT ![source] = MapPut(drawn, at, word)]
    ELSE twin.stream

\* Set creates a node in list l only while draws are left
ListSetEnabled(l, key) ==
    (l.options.hashmap /\ MapGet(l.nodes, key) # Nil) \/ l.rng < MaxDraws

\* a call is the next one if none is pending, or if it is the pending one
Callable(call) == twin.pending \in {<<>>, <<call>>}

\* the call's outcome r becomes the list in `twin`, the other list becomes
\* the list whose turn it is
Turn(r, call, stream) ==
    /\ header' = twin.list.header
    /\ heap' = twin.list.heap
    /\ nodes' = twin.list.nodes
    /\ last' = twin.list.last
    /\ length' = twin.list.length
    /\ rng' = twin.list.rng
    /\ options' = twin.list.options
    /\ hashmap' = twin.list.options.hashmap
    /\ twin' = [twin EXCEPT
                   !.list = ListOf(r.header,
                                   Collect(r.heap, Roots(r.header, r.last, r.nodes)),
                                   r.nodes, r.last, r.length, r.rng, options),
                   !.pending = IF twin.pending = <<>> THEN <<call>> ELSE <<>>,
                   !.stream = stream]
    /\ UNCHANGED <<phase, rwMutex, threads>>

TwinSet(key, value, word) ==
    LET call == [method |-> "Set", key |-> key, value |-> value] IN
    /\ Callable(call)
    /\ SetEnabled(key)
    /\ twin.pending = <<>> => ListSetEnabled(twin.list, key)
    /\ IF SetFastPath(key)
       THEN /\ word = AllOnes32
            /\ Turn(SetCall(key, value, word), call, twin.stream)
       ELSE /\ Drawable(word)
            /\ Turn(SetCall(key, value, word), call, StreamWith(word))
    /\ shadow' = IF twin.pending = <<>> THEN [shadow EXCEPT ![key] = value]
                 ELSE shadow

TwinRemove(key) ==
    LET call == [method |-> "Remove", key |-> key, value |-> NoValue] IN
    /\ Callable(call)
    /\ Turn(RemoveCall(key), call, twin.stream)
    /\ shadow' = IF twin.pending = <<>> THEN [shadow EXCEPT ![key] = NoValue]
                 ELSE shadow

TwinRemoveFirst ==
    LET call == [method |-> "RemoveFirst", key |-> 0, value |-> NoValue] IN
    /\ Callable(call)
    /\ Turn(RemoveFirstCall, call, twin.stream)
    /\ shadow' = IF twin.pending = <<>> /\ ShadowKeys # {}
                 THEN [shadow EXCEPT ![ShadowMin] = NoValue]
                 ELSE shadow

NextTwin ==
    \/ \E key \in Keys, value \in Values, word \in RngValues :
          TwinSet(key, value, word)
    \/ \E key \in Keys : TwinRemove(key)
    \/ TwinRemoveFirst

SpecTwin == InitTwin /\ [][NextTwin]_vars

\* the calls made on two lists of the same seed: no level and no link depends
\* on a value, and one value is set
NextSameSeed ==
    \/ \E key \in Keys, value \in WriterValues, word \in RngValues :
          TwinSet(key, value, word)
    \/ \E key \in Keys : TwinRemove(key)
    \/ TwinRemoveFirst

SpecSameSeed == InitSameSeed /\ [][NextSameSeed]_vars

\* ================================================================ the lock
\* src/unnamed/part_005 built with WithThreadSafe(): the calls that the
\* goroutines sharing a list make, as far as the mutex is concerned.  A call
\* is a stack of frames, one for the public method and one for each method
\* it calls; a frame waits for the writers' mutex ("enter") and for the
\* readers to leave ("pending") in Lock or sleeps in RLock ("sleeping"),
\* reads and writes the list ("body" up to the call of another method,
\* "rest" after it) and returns, when its deferred Unlock or RUnlock runs.  The mutex is Go's
\* sync.RWMutex: Lock takes the writers' mutex w, which turns arriving
\* readers away, and then waits for the readers that hold the mutex to
\* leave; Unlock admits the readers that were turned away and releases w.
Goroutines == 1..MaxGoroutines

PublicMethods ==
    {"Set", "Remove", "RemoveFirst", "Length", "Get", "Contains",
     "AtOrBefore", "AtOrAfter", "Before", "After", "First", "Last"}
Mutators == {"Set", "Remove", "RemoveFirst"}

\* mutant of LockOf: Set takes no lock
LockOfSetUnlocked(fn) ==
    IF fn \in {"Remove", "RemoveFirst"} THEN "Lock"
    ELSE IF fn \in LockedMethods THEN "RLock"
    ELSE "none"

\* mutant of LockOf: the private get takes the read lock as Get does
LockOfGetLocks(fn) ==
    IF fn \in Mutators THEN "Lock"
    ELSE IF fn \in LockedMethods \cup {"get"} THEN "RLock"
    ELSE "none"

\* if l.rwMutex != nil { l.rwMutex.Lock(); defer l.rwMutex.Unlock() } of Set,
\* Remove and RemoveFirst, with RLock and RUnlock in Length, Get, Contains,
\* AtOrBefore and AtOrAfter; First, Last, Before, After, get and fastGet
\* have no such statement
LockOf(fn) ==
    IF fn \in Mutators THEN "Lock"
    ELSE IF fn \in LockedMethods THEN "RLock"
    ELSE "none"

\* the method of the list that the body of fn calls
Helper(fn) ==
    CASE fn \in {"Set", "Get", "Contains"} -> "get"
      [] fn \in {"AtOrBefore", "AtOrAfter"} -> "fastGet"
      [] fn = "RemoveFirst" -> "First"
      [] fn = "Before" -> "AtOrBefore"
      [] fn = "After" -> "AtOrAfter"
      [] OTHER -> "none"

NoReaders == [g \in Goroutines |-> 0]
Frame(fn, pc) == [fn |-> fn, pc |-> pc]
Top(g) == threads[g][Len(threads[g])]
At(g, pc) == threads[g] # <<>> /\ Top(g).pc = pc
Moved(g, pc) ==
    [threads EXCEPT ![g][Len(threads[g])] = Frame(Top(g).fn, pc)]

InitLocks ==
    /\ heap = EmptyMap
    /\ nodes = EmptyMap
    /\ header = [L \in Levels |-> Nil]
    /\ last = Nil
    /\ length = 0
    /\ rng = 0
    /\ shadow = [k \in Keys |-> NoValue]
    /\ options = [ElemDefaultOptions EXCEPT !.maxLevel = MaxLevel,
                                            !.threadSafe = TRUE]
    /\ hashmap = options.hashmap
    /\ phase = "built"
    /\ rwMutex = [w |-> 0, readers |-> NoReaders, sleeping |-> {}]
    /\ threads = [g \in Goroutines |-> <<>>]
    /\ twin = NoTwin

listState == <<header, heap, nodes, last, length, rng, shadow, hashmap,
               options, phase, twin>>

\* fn is called by goroutine g, whose frames so far are `frames`: a method
\* without a lock statement starts its body; l.rwMutex.RLock() is granted,
\* or the goroutine sleeps while a writer has w; l.rwMutex.Lock() is next
Called(g, frames, fn) ==
    CASE LockOf(fn) = "Lock" ->
            /\ threads' = [threads EXCEPT ![g] = Append(frames, Frame(fn, "enter"))]
            /\ UNCHANGED rwMutex
      [] LockOf(fn) = "RLock" /\ rwMutex.w = 0 ->
            /\ threads' = [threads EXCEPT ![g] = Append(frames, Frame(fn, "body"))]
            /\ rwMutex' = [rwMutex EXCEPT !.readers[g] = @ + 1]
      [] LockOf(fn) = "RLock" /\ rwMutex.w # 0 ->
            /\ threads' = [threads EXCEPT ![g] = Append(frames, Frame(fn, "sleeping"))]
            /\ rwMutex' = [rwMutex EXCEPT !.sleeping = @ \cup {g}]
      [] OTHER ->
            /\ threads' = [threads EXCEPT ![g] = Append(frames, Frame(fn, "body"))]
            /\ UNCHANGED rwMutex

\* goroutine g calls a public method
Invoke(g, method) ==
    /\ threads[g] = <<>>
    /\ Called(g, <<>>, method)
    /\ UNCHANGED listState

\* l.rwMutex.Lock(): the writers' mutex is taken
LockW(g) ==
    /\ At(g, "enter")
    /\ rwMutex.w = 0
    /\ rwMutex' = [rwMutex EXCEPT !.w = g]
    /\ threads' = Moved(g, "pending")
    /\ UNCHANGED listState

\* l.rwMutex.Lock() returns when the readers have left
LockProceed(g) ==
    /\ At(g, "pending")
    /\ rwMutex.readers = NoReaders
    /\ threads' = Moved(g, "body")
    /\ UNCHANGED <<rwMutex, listState>>

\* l.rwMutex.RLock() returns in a goroutine that Unlock admitted
Wake(g) ==
    /\ At(g, "sleeping")
    /\ g \notin rwMutex.sleeping
    /\ threads' = Moved(g, "body")
    /\ UNCHANGED <<rwMutex, listState>>

\* the body calls l.get, l.fastGet, l.First, l.AtOrBefore or l.AtOrAfter
Call(g) ==
    /\ At(g, "body")
    /\ Helper(Top(g).fn) # "none"
    /\ Called(g, Moved(g, "rest")[g], Helper(Top(g).fn))
    /\ UNCHANGED listState

\* return, from the body of a method that calls no other or from what
\* follows the call, with the deferred l.rwMutex.Unlock() or
\* l.rwMutex.RUnlock(): Unlock admits the sleeping readers and releases w
Leave(g) ==
    /\ \/ At(g, "rest")
       \/ At(g, "body") /\ Helper(Top(g).fn) = "none"
    /\ rwMutex' =
          CASE LockOf(Top(g).fn) = "Lock" ->
                  [w |-> 0,
                   readers |-> [h \in Goroutines |->
                                  rwMutex.readers[h]
                                  + (IF h \in rwMutex.sleeping THEN 1 ELSE 0)],
                   sleeping |-> {}]
            [] LockOf(Top(g).fn) = "RLock" ->
                  [rwMutex EXCEPT !.readers[g] = @ - 1]
            [] OTHER -> rwMutex
    /\ threads' = [threads EXCEPT ![g] = SubSeq(@, 1, Len(@) - 1)]
    /\ UNCHANGED listState

\* a step of a call in progress
Run(g) ==
    \/ LockW(g)
    \/ LockProceed(g)
    \/ Wake(g)
    \/ Call(g)
    \/ Leave(g)

NextLocks ==
    \/ \E g \in Goroutines, method \in PublicMethods : Invoke(g, method)
    \/ \E g \in Goroutines : LockW(g)
    \/ \E g \in Goroutines : LockProceed(g)
    \/ \E g \in Goroutines : Wake(g)
    \/ \E g \in Goroutines : Call(g)
    \/ \E g \in Goroutines : Leave(g)

SpecLocks == InitLocks /\ [][NextLocks]_vars

\* the scheduler runs every goroutine whose call can go on; a goroutine
\* waiting in Lock for the writers' mutex can go on whenever w is free, and is
\* handed it after finitely many other writers
SpecLocksFair ==
    /\ SpecLocks
    /\ \A g \in Goroutines : SF_vars(Run(g))

\* ================================================= the slice-lane variant
\* src/unnamed/part_006: the list of Nodes whose lanes are a slice with as
\* many lanes as the node's level, under a header of MaxLevel lanes.  Its
\* options are a seed and the hash map.  The loop of its Set differs from
\* that of src/skiplist.go in the condition under which the new node takes
\* the prev of its successor; its Get, Remove, RemoveFirst and Search are
\* those of src/skiplist.go statement for statement, with the lanes read
\* through the slice.
SliceDefaultOptions == [seed |-> 0, hashmap |-> FALSE]
IsSliceOptions(o) == "prob" \notin DOMAIN o
IsNodeOptions(o) == ~IsElementOptions(o) /\ ~IsSliceOptions(o)

SliceInit ==
    /\ heap = EmptyMap
    /\ hashmap \in BOOLEAN
    /\ nodes = EmptyMap
    /\ header = [L \in Levels |-> Nil]
    /\ last = Nil
    /\ length = 0
    /\ rng = 0
    /\ shadow = [k \in Keys |-> NoValue]
    /\ options = [SliceDefaultOptions EXCEPT !.hashmap = hashmap]
    /\ phase = "built"
    /\ rwMutex = "nil"
    /\ threads = NoThreads
    /\ twin = NoTwin

\* result := (^uint32(0) >> (32 - uint32(limit))) & rng.Uint32()
\* for ; result&1 == 1; result >>= 1 { n++ }
sampleGeometricDistribution(limit, word) ==
    TrailingOnes32(And32(ShiftRight32(AllOnes32, Sub32(ToUint32(Uint32Bits), ToUint32(limit))), word))

\* &Node[K, V]{key: key, value: value, lanes: make([]*Node[K, V], nodeLevel)}
NewSliceNode(key, value, nodeLevel) ==
    [key |-> key, value |-> value,
     lanes |-> [L \in 0..(nodeLevel - 1) |-> Nil], prev |-> Nil]

\* if level == 0 && node.lanes[0] != nil { if !replaced {
\*   node.prev = node.lanes[0].prev }; node.lanes[0].prev = node }
SliceSetLinkPrev(hp, level, node, replaced) ==
    IF level = 0 /\ hp[node].lanes[0] # Nil
    THEN LET succ == hp[node].lanes[0]
             hp1 == IF ~replaced
                    THEN [hp EXCEPT ![node].prev = hp[succ].prev]
                    ELSE hp
         IN [hp1 EXCEPT ![succ].prev = node]
    ELSE hp

\* mutant of SliceSetSplice: the node is linked on one lane more than its
\* slice has
SliceSetSpliceOneMore(st, level, node, nodeLevel) ==
    IF level <= nodeLevel
    THEN LET succ == Lane(st.header, st.heap, st.cur, level)
             hp1 == IF level < nodeLevel
                    THEN [st.heap EXCEPT ![node].lanes[level] = succ]
                    ELSE st.heap
             hp2 == SetLaneHeap(hp1, st.cur, level, node)
         IN [st EXCEPT !.header = SetLaneHeader(st.header, st.cur, level, node),
                       !.heap = SliceSetLinkPrev(hp2, level, node, st.replaced)]
    ELSE st

\* if level < nodeLevel { node.lanes[level] = lanes[level]; lanes[level] = node; ... }
SliceSetSplice(st, level, node, nodeLevel) ==
    IF level < nodeLevel
    THEN LET succ == Lane(st.header, st.heap, st.cur, level)
             hp1 == [st.heap EXCEPT ![node].lanes[level] = succ]
             hp2 == SetLaneHeap(hp1, st.cur, level, node)
         IN [st EXCEPT !.header = SetLaneHeader(st.header, st.cur, level, node),
                       !.heap = SliceSetLinkPrev(hp2, level, node, st.replaced)]
    ELSE st

\* one iteration of the level loop of Set: the advance and the routing around
\* a node of the key are those of src/skiplist.go
SliceSetLevel(st, level, node, key, nodeLevel) ==
    LET c == Advance(st.header, st.heap, st.cur, level, key) IN
    SliceSetSplice(SetRouteAround(st, c, level, node, key), level, node, nodeLevel)

RECURSIVE SliceSetDescent(_, _, _, _, _)
\* for level := MaxLevel - 1; level >= 0; level-- { ... }
SliceSetDescent(st, level, node, key, nodeLevel) ==
    LET st1 == SliceSetLevel(st, level, node, key, nodeLevel) IN
    IF level = 0 THEN st1 ELSE SliceSetDescent(st1, level - 1, node, key, nodeLevel)

SliceSetInsert(key, value, word) ==
    LET nodeLevel == 1 + sampleGeometricDistribution(MaxLevel - 1, word)
        node == Alloc(heap, key)
        st0 == [header |-> header,
                heap |-> HeapPut(heap, node, NewSliceNode(key, value, nodeLevel)),
                cur |-> Nil,
                replaced |-> FALSE]
        st == SliceSetDescent(st0, MaxLevel - 1, node, key, nodeLevel)
        newLast == SetIsNewLast(st.heap, last, key)
    IN
    Outcome(st.header,
            IF newLast THEN [st.heap EXCEPT ![node].prev = last] ELSE st.heap,
            IF hashmap THEN MapPut(nodes, key, node) ELSE nodes,
            IF newLast THEN node ELSE last,
            SetLength(length, st.replaced),
            rng + 1,
            node)

SliceSetCall(key, value, word) ==
    IF SetFastPath(key) THEN SetReplaceValue(key, value)
    ELSE SliceSetInsert(key, value, word)

SliceSet(key, value, word) ==
    /\ SetEnabled(key)
    /\ Return(SliceSetCall(key, value, word))
    /\ shadow' = [shadow EXCEPT ![key] = value]

SliceRemove(key) ==
    /\ Return(RemoveCall(key))
    /\ shadow' = [shadow EXCEPT ![key] = NoValue]

SliceRemoveFirst ==
    /\ Return(RemoveFirstCall)
    /\ shadow' = IF ShadowKeys = {} THEN shadow
                 ELSE [shadow EXCEPT ![ShadowMin] = NoValue]

SliceNext ==
    \/ \E key \in Keys, value \in Values, word \in RngValues :
          SliceSet(key, value, word)
    \/ \E key \in Keys : SliceRemove(key)
    \/ SliceRemoveFirst

\* ------------------------------------------------------ the three lists
\* a list of any of the three kinds, and the calls of its kind made on it
InitVariants == Init \/ ElemInit \/ SliceInit

NextVariants ==
    \/ \E key \in Keys, value \in Values, word \in RngValues :
          IsNodeOptions(options) /\ Set(key, value, word)
    \/ \E key \in Keys : IsNodeOptions(options) /\ Remove(key)
    \/ IsNodeOptions(options) /\ RemoveFirst
    \/ \E key \in Keys, value \in Values, word \in Rng64Values :
          IsElementOptions(options) /\ ElemSet(key, value, word)
    \/ \E key \in Keys : IsElementOptions(options) /\ ElemRemove(key)
    \/ IsElementOptions(options) /\ ElemRemoveFirst
    \/ \E key \in Keys, value \in Values, word \in RngValues :
          IsSliceOptions(options) /\ SliceSet(key, value, word)
    \/ \E key \in Keys : IsSliceOptions(options) /\ SliceRemove(key)
    \/ IsSliceOptions(options) /\ SliceRemoveFirst

SpecVariants == InitVariants /\ [][NextVariants]_vars

\* ======================================================= the sampler alone
\* src/skiplist.go: a call of sampleCoinflipGeoDist32(limit, rng), for the
\* limits below, at and above the width of the word and the words the
\* generator returns.  `threads` holds the call: its arguments, and its
\* result once it has returned.
SampleLimits == 0..(Uint32Bits + 1)

InitSampler ==
    /\ heap = EmptyMap
    /\ hashmap = FALSE
    /\ nodes = EmptyMap
    /\ header = NoLanes
    /\ last = Nil
    /\ length = 0
    /\ rng = 0
    /\ shadow = [k \in Keys |-> NoValue]
    /\ options = DefaultOptions
    /\ phase = "built"
    /\ rwMutex = "nil"
    /\ threads \in {[pc |-> "called", limit |-> limit, word |-> word, n |-> 0] :
                      limit \in SampleLimits, word \in RngValues}
    /\ twin = NoTwin

\* var n int; result := ...; for ; result&1 == 1; result >>= 1 { n++ }; return n
Sample ==
    /\ threads.pc = "called"
    /\ threads' = [threads EXCEPT
                      !.pc = "returned",
                      !.n = sampleCoinflipGeoDist32(threads.limit, threads.word)]
    /\ rng' = rng + 1
    /\ UNCHANGED <<heap, nodes, hashmap, header, last, length, shadow, options,
                   phase, rwMutex, twin>>

SpecSampler == InitSampler /\ [][Sample]_vars

\* ---------------------------------------------------------------- claims
\* C1: following Next() from First() until nil visits keys in strictly
\* ascending order, and visits exactly the keys that were set and not
\* removed since, each once.
C1_ForwardAscendingExact ==
    /\ Len(Forward) <= Cardinality(DOMAIN heap)
    /\ Ascending(KeysOf(heap, Forward))
    /\ Range(KeysOf(heap, Forward)) = ShadowKeys

\* a key was set twice without the hash map (three nodes were created for
\* two keys), both keys are in the list
C1_Witness ==
    /\ ~hashmap
    /\ rng = MaxDraws
    /\ Len(Forward) = 2

\* C2: the nodes met following Prev() from Last() are the reverse of the
\* nodes met following Next() from First(): the same node objects, the same
\* count, the opposite order.
C2_BackwardIsReverse == Backward = Reverse(Forward)

\* C3: Length() equals the number of nodes reached by following Next() from
\* First(), which equals the number of distinct keys present.
C3_LengthIsCount ==
    /\ Length = Len(Forward)
    /\ Length = Cardinality(ShadowKeys)

\* with the hash map every node made is the node of a key that was absent:
\* all draws are used and one key is left, so keys were removed and set anew
C3_Witness ==
    /\ hashmap
    /\ rng = MaxDraws
    /\ Length = 1
    /\ Len(Forward) = 1

\* keys a caller may ask for: every key of the model and one on either side
QueryKeys == 0..(MaxKey + 1)

\* Contains, as the Element variant defines it: Get(key) != nil
Contains(key) == Get(key) # Nil

\* C4: Get(k) returns a node whose key is k and whose value is the value of
\* the most recent Set(k, _) if k is present, and nil if k was never set or
\* was removed since; Contains(k) is true exactly when Get(k) is non-nil.
C4_GetLatest ==
    \A k \in Keys :
        LET n == Get(k) IN
        /\ IF shadow[k] # NoValue
           THEN n # Nil /\ NodeKey(heap, n) = k /\ NodeValue(heap, n) = shadow[k]
           ELSE n = Nil
        /\ Contains(k) <=> shadow[k] # NoValue

\* a key holds a value other than the one an earlier, still referenced node
\* for it carries, and another key is absent
C4_Witness ==
    \E k \in Keys :
        /\ shadow[k] # NoValue
        /\ \E n \in DOMAIN heap :
              n # Get(k) /\ heap[n].key = k /\ heap[n].value # shadow[k]
        /\ \E x \in Keys : shadow[x] = NoValue /\ Get(x) = Nil

\* the keys present that are not below k
AtOrAbove(k) == {x \in ShadowKeys : x >= k}
MinOf(S) == CHOOSE x \in S : \A y \in S : x <= y
MaxOf(S) == CHOOSE x \in S : \A y \in S : x >= y

\* C5: Search(k) returns the node with the smallest key that is greater
\* than or equal to k, nil when every key in the list is smaller than k or
\* the list is empty; the descent gives the same node as the hash map does.
C5_SearchCeiling ==
    \A k \in QueryKeys :
        LET n == Search(k) IN
        /\ IF AtOrAbove(k) = {}
           THEN n = Nil
           ELSE /\ n # Nil
                /\ n \in Range(Forward)
                /\ NodeKey(heap, n) = MinOf(AtOrAbove(k))
                /\ NodeValue(heap, n) = shadow[MinOf(AtOrAbove(k))]
        /\ SearchIn(header, heap, nodes, FALSE, k) = n

\* the list holds the largest key only, after a smaller one was removed:
\* the search for a smaller key finds the larger, for a key above finds nil
C5_Witness ==
    /\ hashmap
    /\ ShadowKeys = {MaxKey}
    /\ rng = MaxDraws
    /\ Search(1) # Nil
    /\ Search(MaxKey + 1) = Nil

\* C6: Remove(k) of a present key returns the node of k with the value last
\* set, after which Get(k) is nil and Length() is one less; Remove(k) of an
\* absent key returns nil and leaves Length() unchanged.
C6_Remove ==
    \A k \in Keys :
        LET r == RemoveCall(k) IN
        IF shadow[k] # NoValue
        THEN /\ r.node # Nil
             /\ NodeKey(r.heap, r.node) = k
             /\ NodeValue(r.heap, r.node) = shadow[k]
             /\ GetIn(r.header, r.heap, r.nodes, hashmap, k) = Nil
             /\ r.length = Length - 1
        ELSE /\ r.node = Nil
             /\ r.length = Length

\* after a removal (one key left, every draw used for a key that was
\* absent) Remove returns the node of the key that is left and nil for
\* another key
C6_Witness ==
    /\ hashmap
    /\ rng = MaxDraws
    /\ Length = 1
    /\ \E k \in Keys : RemoveCall(k).node # Nil /\ RemoveCall(k).length = 0
    /\ \E k \in Keys : RemoveCall(k).node = Nil /\ RemoveCall(k).length = 1

\* C7: in every non-empty state Last() is the node that has no lane-0
\* successor: the final node of the traversal from First() and the node Get
\* returns for the largest key.
C7_LastIsFinal ==
    Forward # <<>> =>
        /\ Last # Nil
        /\ NodeNext(heap, Last) = Nil
        /\ Last = Forward[Len(Forward)]
        /\ Last = Get(MaxOf(ShadowKeys))

\* C8: First() == nil if and only if Last() == nil if and only if
\* Length() == 0.
C8_EmptinessAgree ==
    /\ (First = Nil) <=> (Last = Nil)
    /\ (Last = Nil) <=> (Length = 0)

\* C9: at most one node per key is reachable from First(); Set on a key that
\* is present leaves Length() unchanged, Set on an absent key increases it
\* by exactly 1.
C9_UniqueKeys ==
    /\ LET forward == Forward IN
       \A i, j \in 1..Len(forward) :
          i # j => NodeKey(heap, forward[i]) # NodeKey(heap, forward[j])
    /\ \A k \in Keys, v \in Values, w \in RngValues :
          SetEnabled(k) =>
              LET r == SetCall(k, v, w)
                  forward == ForwardIn(r.header, r.heap)
              IN
              /\ r.length = IF shadow[k] # NoValue THEN Length ELSE Length + 1
              /\ \A i, j \in 1..Len(forward) :
                    i # j => NodeKey(r.heap, forward[i])
                             # NodeKey(r.heap, forward[j])

\* without the hash map a key was set before and is present among others:
\* Set on it links a new node in place of its node and keeps the length, Set
\* on an absent key adds one
C9_Witness ==
    /\ ~hashmap
    /\ 1 < rng /\ rng < MaxDraws
    /\ Length = Cardinality(Keys) - 1
    /\ \E k \in Keys, v \in Values, w \in RngValues :
          /\ shadow[k] # NoValue
          /\ SetCall(k, v, w).node # Get(k)
          /\ SetCall(k, v, w).length = Length
    /\ \E k \in Keys, v \in Values, w \in RngValues :
          /\ shadow[k] = NoValue
          /\ SetCall(k, v, w).length = Length + 1

\* C10: Set(k, v) returns a node n with key k and value v; right afterwards
\* Get(k) returns n itself, and n is reachable from First() via Next() and
\* from Last() via Prev().
C10_SetReturnsListNode ==
    \A k \in Keys, v \in Values, w \in RngValues :
        SetEnabled(k) =>
            LET r == SetCall(k, v, w) IN
            /\ r.node # Nil
            /\ NodeKey(r.heap, r.node) = k
            /\ NodeValue(r.heap, r.node) = v
            /\ GetIn(r.header, r.heap, r.nodes, hashmap, k) = r.node
            /\ r.node \in Range(ForwardIn(r.header, r.heap))
            /\ r.node \in Range(BackwardIn(r.last, r.heap))

C12_ReplaceDetachesOld ==
    \A k \in Keys, v \in Values, w \in RngValues :
        (~hashmap /\ shadow[k] # NoValue /\ SetEnabled(k)) =>
            LET r == SetCall(k, v, w)
                old == Get(k)
                fwd == ForwardIn(r.header, r.heap)
            IN
            /\ r.node # old
            /\ old \notin Range(fwd)
            /\ old \notin Range(BackwardIn(r.last, r.heap))
            /\ \A x \in Range(fwd) :
                  NodeNext(r.heap, x) # old /\ NodePrev(r.heap, x) # old

\* C13: on a list holding n keys, n successive RemoveFirst() calls each
\* return a non-nil node, in strictly ascending key order: in every state
\* RemoveFirst() returns the node of the smallest key present, lowers
\* Length() by 1 and leaves exactly the larger keys in the list; when it was
\* the only key, First() and Last() are nil and Length() is 0 afterwards;
\* on the empty list it returns nil and changes nothing.
C13_RemoveFirstDrains ==
    LET r == RemoveFirstCall IN
    IF ShadowKeys # {}
    THEN /\ r.node # Nil
         /\ NodeKey(r.heap, r.node) = ShadowMin
         /\ r.length = Length - 1
         /\ Ascending(KeysOf(r.heap, ForwardIn(r.header, r.heap)))
         /\ Range(KeysOf(r.heap, ForwardIn(r.header, r.heap)))
               = ShadowKeys \ {ShadowMin}
         /\ ShadowKeys = {ShadowMin} =>
               /\ r.header[0] = Nil
               /\ r.last = Nil
               /\ r.length = 0
    ELSE /\ r.node = Nil
         /\ r = Outcome(header, heap, nodes, last, length, rng, Nil)

\* every key of the model was set, the smaller ones were removed again, and
\* RemoveFirst() returns the node of the one that is left and empties the
\* list
C13_Witness ==
    /\ rng = MaxDraws
    /\ Cardinality(DOMAIN heap) = 1
    /\ ShadowKeys = {MaxKey}
    /\ RemoveFirstCall.node # Nil
    /\ RemoveFirstCall.length = 0
    /\ RemoveFirstCall.last = Nil

\* C14: after any sequence of Set calls on an empty list, Remove(k) for
\* every distinct key k in any order returns the list to Length() == 0:
\* in every state Remove of a present key leaves as many nodes as there are
\* other keys present, none when it was the only one.
C14_RemoveAllEmpties ==
    \A k \in ShadowKeys :
        /\ RemoveCall(k).length = Cardinality(ShadowKeys \ {k})
        /\ ShadowKeys = {k} => RemoveCall(k).length = 0

\* one key is left of those set, a key was set more than once (a replaced
\* node is still referenced), and Remove of the key left empties the list
C14_Witness ==
    /\ ~hashmap
    /\ rng = MaxDraws
    /\ Cardinality(DOMAIN heap) > 1
    /\ \E k \in Keys :
          /\ ShadowKeys = {k}
          /\ RemoveCall(k).node # Nil
          /\ RemoveCall(k).length = 0

\* C15: with the hash map enabled, in every state reachable by Set, Remove
\* and RemoveFirst the keys of the map are the keys reachable from First(),
\* and the map takes each of them to the node linked in the list for it.
C15_HashmapConsistent ==
    hashmap =>
        /\ DOMAIN nodes = Range(KeysOf(heap, Forward))
        /\ \A i \in 1..Len(Forward) :
              MapGet(nodes, NodeKey(heap, Forward[i])) = Forward[i]

\* with the hash map two keys were removed (all draws are used, one key is
\* left) and the map holds the key that is left
C15_Witness ==
    /\ hashmap
    /\ rng = MaxDraws
    /\ Len(Forward) = 1
    /\ Cardinality(DOMAIN nodes) = 1
    /\ MapGet(nodes, NodeKey(heap, First)) = First

\* the keys present that are not above k, below k, above k
AtOrBelow(k) == {x \in ShadowKeys : x <= k}
Below(k) == {x \in ShadowKeys : x < k}
Above(k) == {x \in ShadowKeys : x > k}

\* the element linked in the list for a key that is present
ElementAt(x) == CHOOSE n \in Range(Forward) : NodeKey(heap, n) = x

\* the element expected for a set of candidate keys: that of its greatest
\* (smallest) key, nil when there is no candidate
GreatestOf(S) == IF S = {} THEN Nil ELSE ElementAt(MaxOf(S))
SmallestOf(S) == IF S = {} THEN Nil ELSE ElementAt(MinOf(S))

\* C16: in the Element variant, for every key k and reachable state,
\* AtOrBefore(k) returns the element with the greatest key <= k and
\* Before(k) the element with the greatest key < k, each nil when there is
\* no such key; the results are the same without the hash map.
C16_FloorQueries ==
    \A k \in QueryKeys :
        /\ AtOrBefore(k) = GreatestOf(AtOrBelow(k))
        /\ Before(k) = GreatestOf(Below(k))
        /\ AtOrBeforeIn(header, heap, nodes, FALSE, k) = AtOrBefore(k)
        /\ BeforeIn(header, heap, nodes, FALSE, k) = Before(k)

\* with the hash map the smallest and the largest key of the model are
\* present and the one between them was removed: AtOrBefore of the middle
\* key is the smallest, Before of the smallest is nil, Before of the largest
\* is the smallest
C16_Witness ==
    /\ hashmap
    /\ rng = MaxDraws
    /\ ShadowKeys = {1, MaxKey}
    /\ AtOrBefore(MaxKey - 1) = First
    /\ Before(1) = Nil
    /\ AtOrBefore(0) = Nil
    /\ Before(MaxKey) = First
    /\ AtOrBefore(MaxKey + 1) = Last

\* C17: in the Element variant, for every key k and reachable state,
\* AtOrAfter(k) returns the element with the smallest key >= k and After(k)
\* the element with the smallest key > k, each nil when there is no such
\* key; the results are the same without the hash map.
C17_CeilingQueries ==
    \A k \in QueryKeys :
        /\ AtOrAfter(k) = SmallestOf(AtOrAbove(k))
        /\ After(k) = SmallestOf(Above(k))
        /\ AtOrAfterIn(header, heap, nodes, FALSE, k) = AtOrAfter(k)
        /\ AfterIn(header, heap, nodes, FALSE, k) = After(k)

\* without the hash map the smallest and the largest key of the model are
\* present and the one between them is not: AtOrAfter of the middle key is
\* the largest, After of the largest and AtOrAfter beyond it are nil
C17_Witness ==
    /\ ~hashmap
    /\ rng = MaxDraws
    /\ ShadowKeys = {1, MaxKey}
    /\ AtOrAfter(MaxKey - 1) = Last
    /\ After(1) = Last
    /\ After(MaxKey) = Nil
    /\ AtOrAfter(MaxKey + 1) = Nil
    /\ AtOrAfter(0) = First

\* C18: in the Element variant, for every key k and reachable state: if k is
\* present, AtOrBefore(k) and AtOrAfter(k) both return the element at k; if
\* k is absent, AtOrBefore(k) returns the same element as Before(k) and
\* AtOrAfter(k) the same element as After(k).
C18_AtOrRelations ==
    \A k \in QueryKeys :
        IF k \in ShadowKeys
        THEN /\ ElemGet(k) # Nil
             /\ AtOrBefore(k) = ElemGet(k)
             /\ AtOrAfter(k) = ElemGet(k)
        ELSE /\ AtOrBefore(k) = Before(k)
             /\ AtOrAfter(k) = After(k)

\* the middle key is absent between two present keys: both pairs of queries
\* agree on it, while for a present key AtOrBefore and AtOrAfter return the
\* element at it, Before and After its neighbour
C18_Witness ==
    /\ rng = MaxDraws
    /\ ShadowKeys = {1, MaxKey}
    /\ AtOrBefore(MaxKey - 1) = First
    /\ AtOrAfter(MaxKey - 1) = Last
    /\ AtOrBefore(MaxKey) = Last
    /\ Before(MaxKey) = First
    /\ AtOrAfter(1) = First
    /\ After(1) = Last

\* C19: the node returned by Remove or RemoveFirst is no longer linked to
\* the list: right after the call its Next() is nil and its Prev() is nil.
C19_RemovedNodeUnlinked ==
    /\ \A k \in Keys :
          LET r == RemoveCall(k) IN
          r.node # Nil =>
              NodeNext(r.heap, r.node) = Nil /\ NodePrev(r.heap, r.node) = Nil
    /\ LET r == RemoveFirstCall IN
       r.node # Nil =>
           NodeNext(r.heap, r.node) = Nil /\ NodePrev(r.heap, r.node) = Nil

\* a probability outside [0, 1]: anything that is not a number from 0 to 1
OutsideUnit(p) == ~(~p.nan /\ 0 <= p.halves /\ p.halves <= 2)

\* the configurations the construction has to reject
Rejected(o) ==
    \/ OutsideUnit(o.prob)
    \/ IsElementOptions(o) /\ o.maxLevel < 1

\* C20: New panics and returns no list whenever the configured probability
\* is outside [0, 1] or, where a maximum level is configurable, the maximum
\* level is below 1; in every other case it returns an empty list
\* (Length() == 0, First() == nil, Last() == nil).
C20_ConstructionValidated ==
    /\ phase = "panic" => Rejected(options) /\ header = EmptyMap
    /\ phase = "built" =>
          /\ ~Rejected(options)
          /\ header # EmptyMap
          /\ Length = 0
          /\ First = Nil
          /\ Last = Nil

\* C21: in the Element variant the option WithoutHashmap() disables the hash
\* map and changes no other option: applying it leaves a configuration
\* that differs from the one before in `hashmap` only, which is false; the
\* list stays without a mutex unless WithThreadSafe() is given too.
C21_WithoutHashmapDisables ==
    [][WithoutHashmap => options' = [options EXCEPT !.hashmap = FALSE]]_vars

RECURSIVE WalkLane(_, _, _, _)
\* for n := from; n != nil; n = n.lanes[level], cut after `fuel` nodes
WalkLane(hp, from, level, fuel) ==
    IF from = Nil \/ fuel = 0 THEN <<>>
    ELSE <<from>> \o WalkLane(hp, hp[from].lanes[level], level, fuel - 1)

\* the nodes on lane `level`, from the header
LaneIn(hdr, hp, level) ==
    WalkLane(hp, hdr[level], level, Cardinality(DOMAIN hp) + 1)

\* the level of a node of the list: the number of lanes it is linked on
LevelIn(hdr, hp, n) ==
    Cardinality({L \in DOMAIN hdr : n \in Range(LaneIn(hdr, hp, L))})

\* C24: the level sampler flips with the configured probability: in a list
\* built with WithProbability(0) every node created by Set has level 1, and
\* in a list built with WithProbability(1) every node has the maximum level.
C24_LevelFollowsProbability ==
    /\ options.prob = Zero =>
         \A n \in Range(Forward) : LevelIn(header, heap, n) = 1
    /\ options.prob = One =>
         \A n \in Range(Forward) : LevelIn(header, heap, n) = MaxLevel

\* C25: every node created by Set gets a level in [1, MaxLevel], for every
\* word the generator can return; in the Element variant the level is in
\* [1, maxLevel] for every maxLevel and probability that New accepts and
\* every word and sequence of numbers the generator can return.
C25_LevelInRange ==
    phase = "built" =>
        IF IsElementOptions(options)
        THEN \A word \in Rng64Values, pattern \in Float64Patterns :
                 randomLevelOf(options, word, pattern) \in 1..options.maxLevel
        ELSE \A word \in RngValues, limit \in {MaxLevel, Uint32Bits} :
                 1 + sampleCoinflipGeoDist32(limit - 1, word) \in 1..limit

\* an Element list was built whose sampler masks the word (probability 0.5,
\* more than one level) and returns the maximum level for some word
C25_Witness ==
    /\ phase = "built"
    /\ IsElementOptions(options)
    /\ options.prob = DefaultProbability
    /\ options.maxLevel \in 2..FastLevelLimit
    /\ \E word \in Rng64Values, pattern \in Float64Patterns :
           randomLevelOf(options, word, pattern) = options.maxLevel

\* the lanes of the list as pairs of a level and the set of nodes on its
\* lane, and the level of a node counted on them
LaneSets(hdr, hp) == {<<L, Range(LaneIn(hdr, hp, L))>> : L \in Levels}
LevelAmong(lanes, n) == Cardinality({q \in lanes : n \in q[2]})

\* lane by lane, the list (hdr, hp) is the ascending chain of its nodes of
\* level above the lane's
LanesOrdered(hdr, hp) ==
    LET lanes == LaneSets(hdr, hp)
        forward == ForwardIn(hdr, hp)
    IN
    \A L \in Levels :
        LET lane == LaneIn(hdr, hp, L)
            above == SelectSeq(forward, LAMBDA n : LevelAmong(lanes, n) > L)
        IN
        /\ Len(lane) <= Cardinality(DOMAIN hp)
        /\ Ascending(KeysOf(hp, lane))
        /\ lane = above
        /\ hdr[L] = IF above = <<>> THEN Nil ELSE above[1]

\* the nodes of the list with their levels, as pairs
LevelsIn(hdr, hp) ==
    LET lanes == LaneSets(hdr, hp) IN
    {<<n, LevelAmong(lanes, n)>> : n \in Range(ForwardIn(hdr, hp))}

\* the nodes on `lanes` that are among `before`, nodes paired with the
\* levels they had, have the level they had
LevelsKept(lanes, before) ==
    \A p \in before : LevelAmong(lanes, p[1]) \in {0, p[2]}

\* C27: on every lane L, following the lane from header[L] visits exactly
\* the nodes of level above L, in strictly ascending key order, so header[L]
\* is the smallest such node or nil, in every state that Set, Remove and
\* RemoveFirst reach.  The level of a node is the one Set sampled for it: a
\* created node is linked on that many lanes, and Set, Remove and
\* RemoveFirst leave every other node on the lanes it was on.  (Set stores
\* the value and never reads it: the outcome is taken for one value.)
C27_LaneStructure ==
    LET before == LevelsIn(header, heap)
        value == CHOOSE v \in Values : TRUE
    IN
    /\ LanesOrdered(header, heap)
    /\ \A key \in Keys, word \in RngValues :
           (SetEnabled(key) /\ ~SetFastPath(key)) =>
               LET r == SetCall(key, value, word)
                   lanes == LaneSets(r.header, r.heap)
               IN
               /\ LevelAmong(lanes, r.node)
                      = 1 + sampleCoinflipGeoDist32(MaxLevel - 1, word)
               /\ LevelsKept(lanes, before)
    /\ \A key \in Keys :
           LET r == RemoveCall(key) IN
           LevelsKept(LaneSets(r.header, r.heap), before)
    /\ LET r == RemoveFirstCall IN
       LevelsKept(LaneSets(r.header, r.heap), before)

\* three nodes of three levels are in the list, one of them the replacement
\* of a node that was removed or replaced
C27_Witness ==
    /\ Len(Forward) = 3
    /\ Len(LaneIn(header, heap, 1)) = 2
    /\ Len(LaneIn(header, heap, 2)) = 1
    /\ header[2] # header[0]
    /\ rng > length - 1

\* C28: in every non-empty state the first node has no predecessor:
\* First().Prev() is nil.
C28_FirstHasNoPrev ==
    First # Nil => NodePrev(heap, First) = Nil

\* C29: when Set, without the hash map, replaces the node `old` of a key by
\* a new node, old is on no lane afterwards, the new node's Prev() is what
\* old's Prev() was (nil if old was the first node), and the Prev() of old's
\* successor, if it had one, is the new node.
C29_ReplaceCarriesPrev ==
    \A key \in Keys, value \in Values, word \in RngValues :
        LET old == Get(key) IN
        (~hashmap /\ old # Nil /\ SetEnabled(key)) =>
            LET r == SetCall(key, value, word)
                succ == NodeNext(heap, old)
            IN
            /\ r.node # old
            /\ \A L \in Levels : old \notin Range(LaneIn(r.header, r.heap, L))
            /\ NodePrev(r.heap, r.node) = NodePrev(heap, old)
            /\ succ # Nil => NodePrev(r.heap, succ) = r.node

\* C30: Remove(k) of a present node x repairs the backward chain: if x had a
\* successor s, then after the call s.Prev() is what x.Prev() was and Last()
\* is unchanged; if x had none, Last() is what x.Prev() was.
C30_RemoveRepairsPrev ==
    \A key \in Keys :
        LET x == Get(key)
            r == RemoveCall(key)
        IN
        x # Nil =>
            /\ r.node = x
            /\ IF NodeNext(heap, x) # Nil
               THEN /\ NodePrev(r.heap, NodeNext(heap, x)) = NodePrev(heap, x)
                    /\ r.last = last
               ELSE r.last = NodePrev(heap, x)

\* a node was removed from a list of three (with the hash map every draw is
\* a new key) and the two that remain are linked backwards
C30_Witness ==
    /\ hashmap
    /\ rng = length + 1
    /\ Len(Forward) = 2
    /\ NodePrev(heap, last) = First
    /\ NodePrev(heap, First) = Nil

\* C22: a list built with WithThreadSafe() is thread safe: every method that
\* reads list state holds the read lock for all of its accesses, so none of
\* them reads header, last or a link while Set, Remove or RemoveFirst is
\* between its first and its last write.
C22_ReadsHoldTheLock ==
    threads.reader.access \in {"none", "locked"}

\* C23: Before(k) and After(k) are atomic with respect to concurrent Set,
\* Remove and RemoveFirst: what the call returns is the strict floor
\* (ceiling) of k for the list as it was at some instant between the call
\* and its return.
C23_BeforeAfterAtomic ==
    (threads.reader.pc = "done" /\ threads.reader.method \in {"Before", "After"})
        => threads.reader.result \in threads.reader.valid

\* the entry of key k in the list (hdr, hp, nd): the key and the value of the
\* node Get(k) returns, <<>> when it returns nil
EntryIn(hdr, hp, nd, k) ==
    LET n == GetIn(hdr, hp, nd, hashmap, k) IN
    IF n = Nil THEN <<>> ELSE <<NodeKey(hp, n), NodeValue(hp, n)>>

\* C31: Set(k, v) and Remove(k) change the key, the value and the
\* membership of no entry whose key differs from k, and RemoveFirst of none
\* but the smallest key: for every key k' that the call is not about
\* (the history keeps what it had for k'), Get(k') returns the same key and
\* value, or nil, before and after the call.
C31_OtherEntriesKept ==
    [][\A k \in Keys :
          shadow'[k] = shadow[k] =>
              EntryIn(header', heap', nodes', k) = EntryIn(header, heap, nodes, k)]_vars

\* without the hash map two keys are present and a draw is left: Set on one
\* of them puts a new node in place of its node, with another value, and
\* Remove and RemoveFirst take one of the two out of the list
C31_Witness ==
    /\ ~hashmap
    /\ Len(Forward) = 2
    /\ rng < MaxDraws
    /\ \E key \in ShadowKeys, value \in Values, word \in RngValues :
          LET r == SetCall(key, value, word) IN
          /\ r.node # Get(key)
          /\ EntryIn(r.header, r.heap, r.nodes, key)
                 # EntryIn(header, heap, nodes, key)
    /\ \E key \in ShadowKeys :
          LET r == RemoveCall(key) IN
          EntryIn(r.header, r.heap, r.nodes, key) = <<>>
    /\ RemoveFirstCall.length = 1

\* C32: Remove(k) of a key that is not present, with the hash map (the short
\* circuit) and without it (the full descent), and RemoveFirst() on an empty
\* list return nil and leave the whole list as it was: the header lanes,
\* the lanes and Prev() of every node, last, length, the hash map and the
\* generator.
C32_AbsentRemoveChangesNothing ==
    LET same == Outcome(header, heap, nodes, last, length, rng, Nil) IN
    /\ \A key \in Keys :
           shadow[key] = NoValue =>
               /\ RemoveCall(key) = same
               /\ Collect(RemoveCall(key).heap, Roots(header, last, nodes)) = heap
    /\ ShadowKeys = {} => RemoveFirstCall = same

\* without the hash map the key between two present keys is absent: the
\* descent of Remove passes the smaller and stops before the larger
C32_Witness ==
    /\ ~hashmap
    /\ rng = MaxDraws
    /\ ShadowKeys = {1, MaxKey}
    /\ Len(Forward) = 2
    /\ RemoveCall(MaxKey - 1).node = Nil
    /\ RemoveCall(MaxKey - 1).heap = heap


\* C39: for every limit >= 0 and every word the generator returns,
\* sampleCoinflipGeoDist32(limit, rng) is in [0, min(32, limit)], and for
\* every limit some word gives min(32, limit), the shift count
\* 32 - uint32(limit) being computed modulo 2^32.
C39_SamplerRange ==
    threads.pc = "returned" =>
        LET most == IF threads.limit < Uint32Bits THEN threads.limit
                    ELSE Uint32Bits
        IN
        /\ threads.n \in 0..most
        /\ \E word \in RngValues :
               sampleCoinflipGeoDist32(threads.limit, word) = most

\* ------------------------------------------------------- calls that read
\* the methods of the list that read, and of a node
ListReads == {"Length", "First", "Last", "Get", "Search"}
NodeReads == {"Key", "Value", "Next", "Prev"}

\* the arguments a read is called with in a list whose nodes are hp: none
\* (0), a key, or the node it is a method of
ReadArgs(hp, method) ==
    IF method \in {"Get", "Search"} THEN QueryKeys
    ELSE IF method \in NodeReads THEN DOMAIN hp
    ELSE {0}

\* what the method returns in the list (hdr, hp, nd, lst, len)
ReadIn(hdr, hp, nd, lst, len, method, arg) ==
    CASE method = "Length" -> len
      [] method = "First" -> hdr[0]
      [] method = "Last" -> lst
      [] method = "Get" -> GetIn(hdr, hp, nd, hashmap, arg)
      [] method = "Search" -> SearchIn(hdr, hp, nd, hashmap, arg)
      [] method = "Key" -> NodeKey(hp, arg)
      [] method = "Value" -> NodeValue(hp, arg)
      [] method = "Next" -> NodeNext(hp, arg)
      [] method = "Prev" -> NodePrev(hp, arg)

\* mutant of ReadCall: Search enters the node it finds in the hash map
ReadCallCaching(method, arg) ==
    LET found == ReadIn(header, heap, nodes, last, length, method, arg) IN
    Outcome(header, heap,
            IF method = "Search" /\ found # Nil THEN MapPut(nodes, arg, found)
            ELSE nodes,
            last, length, rng, found)

\* the call of a method that reads: no statement of it assigns a field of
\* the list or of a node, and it draws nothing from the generator
ReadCall(method, arg) ==
    Outcome(header, heap, nodes, last, length, rng,
            ReadIn(header, heap, nodes, last, length, method, arg))

ObservedIn(hdr, hp, nd, hm, lst, len) ==
    LET entry(n) == IF n = Nil THEN <<>> ELSE <<NodeKey(hp, n), NodeValue(hp, n)>>
        forward == ForwardIn(hdr, hp)
        backward == BackwardIn(lst, hp)
    IN
    [length |-> len,
     forward |-> [i \in 1..Len(forward) |-> entry(forward[i])],
     backward |-> [i \in 1..Len(backward) |-> entry(backward[i])],
     first |-> entry(hdr[0]),
     last |-> entry(lst),
     get |-> {<<k, entry(GetIn(hdr, hp, nd, hm, k))>> : k \in QueryKeys},
     search |-> {<<k, entry(SearchIn(hdr, hp, nd, hm, k))>> : k \in QueryKeys}]

\* C34: the hash map is only an accelerator: a list with the hash map and a
\* list without it that are given the same calls of Set, Remove and
\* RemoveFirst, whatever levels each of them samples, give the same
\* observations after every call.
C34_HashmapOnlyAccelerates ==
    twin.pending = <<>> =>
        ObservedIn(header, heap, nodes, hashmap, last, length)
            = ObservedIn(twin.list.header, twin.list.heap, twin.list.nodes,
                         twin.list.options.hashmap, twin.list.last,
                         twin.list.length)

\* C38: two lists built with the same seed and the same options and given the
\* same calls have, after every call, the same nodes with the same levels and
\* the same links, and have drawn the same number of words; with the hash map
\* a Set of a key that is in the list draws no word.
C38_SeededLevelsDeterministic ==
    /\ twin.pending = <<>> =>
          /\ twin.list.header = header
          /\ twin.list.heap = heap
          /\ twin.list.nodes = nodes
          /\ twin.list.last = last
          /\ twin.list.length = length
          /\ twin.list.rng = rng
          /\ LevelsIn(twin.list.header, twin.list.heap) = LevelsIn(header, heap)
    /\ \A key \in Keys, value \in Values, word \in RngValues :
          (hashmap /\ MapGet(nodes, key) # Nil) =>
              SetCall(key, value, word).rng = rng

\* both lists hold two or more nodes, one of them above lane 0, after the same
\* calls, with the hash map
C38_Witness ==
    /\ twin.pending = <<>>
    /\ twin.given[1] = twin.given[2]
    /\ hashmap
    /\ length >= 2
    /\ header[1] # Nil
    /\ rng >= 2
    /\ twin.list.rng = rng
    /\ twin.list.heap = heap

\* goroutine g is between the first and the last access to the list of a
\* call of one of the methods fns
Inside(g, fns) ==
    \E i \in DOMAIN threads[g] :
        threads[g][i].fn \in fns /\ threads[g][i].pc \in {"body", "rest"}

\* C36: with WithThreadSafe(), Set, Remove and RemoveFirst hold the write
\* lock from their first to their last access to the list, and Length, Get,
\* Contains, AtOrBefore and AtOrAfter hold the read lock likewise: no two
\* goroutines are inside mutators at once, and no goroutine is inside one of
\* these five readers while another is inside a mutator.
C36_LocksHeldAcrossAccesses ==
    \A g \in Goroutines :
        /\ Inside(g, Mutators) =>
              /\ rwMutex.w = g
              /\ rwMutex.readers = NoReaders
        /\ Inside(g, LockedMethods) => rwMutex.readers[g] > 0
        /\ \A h \in Goroutines \ {g} :
              Inside(g, Mutators) =>
                  ~Inside(h, Mutators) /\ ~Inside(h, LockedMethods)

\* a goroutine is inside one of the five readers while another waits in Lock
\* for it to leave
C36_Witness ==
    \E g \in Goroutines : \E h \in Goroutines \ {g} :
        /\ Inside(g, LockedMethods)
        /\ At(h, "pending")
        /\ Top(h).fn \in Mutators

\* the frames of goroutine g whose method takes the mutex
Locking(g) == {i \in DOMAIN threads[g] : LockOf(threads[g][i].fn) # "none"}

\* C37: with WithThreadSafe(), no public method takes the mutex while it
\* holds it, a goroutine that has returned holds nothing of the mutex, and
\* under fair scheduling every call that is made returns: no goroutine stays
\* in a call for ever.
C37_NoDeadlock ==
    /\ [](\A g \in Goroutines :
            /\ Cardinality(Locking(g)) <= 1
            /\ threads[g] = <<>> =>
                  /\ rwMutex.w # g
                  /\ rwMutex.readers[g] = 0
                  /\ g \notin rwMutex.sleeping)
    /\ \A g \in Goroutines : []<>(threads[g] = <<>>)

\* a goroutine in Set has called the private get while it holds the write
\* lock, and another sleeps in RLock
C37_Witness ==
    \E g \in Goroutines : \E h \in Goroutines \ {g} :
        /\ Len(threads[g]) = 2
        /\ threads[g][1].fn = "Set"
        /\ Top(g).fn = "get"
        /\ rwMutex.w = g
        /\ At(h, "sleeping")

\* ------------------------------------------------- the descents, step by step
\* The descents as the positions their loops pass through, with what would
\* stop the program: a lane read at an index the slice does not have, a
\* pointer to no node, or a loop that has not ended after Fuel steps, which
\* are more than the levels to drop and the moves of two cursors past every
\* key.
Fuel == MaxLevel + 2 * MaxKey + 2
Faultless == [fault |-> "none", steps |-> <<>>]
Faulty(fault) == [fault |-> fault, steps |-> <<>>]
Then(pos, rest) ==
    LET r == rest IN [fault |-> r.fault, steps |-> <<pos>> \o r.steps]

\* the fault of reading lanes[level], `lanes` being the header or the lanes
\* of node cur
LaneFault(hp, cur, level) ==
    IF cur = Nil THEN (IF level \in Levels THEN "none" ELSE "index")
    ELSE IF cur \notin DOMAIN hp THEN "nil"
    ELSE IF level \notin DOMAIN hp[cur].lanes THEN "index"
    ELSE "none"

\* mutant of Descent: the level is examined again without moving to the node
RECURSIVE DescentStays(_, _, _, _, _, _, _)
DescentStays(hdr, hp, cur, level, key, orEqual, fuel) ==
    IF fuel = 0 THEN Faulty("fuel")
    ELSE IF LaneFault(hp, cur, level) # "none" THEN Faulty(LaneFault(hp, cur, level))
    ELSE LET n == Lane(hdr, hp, cur, level)
             here == [level |-> level, cur |-> cur, next |-> n]
         IN
         IF n # Nil /\ n \notin DOMAIN hp THEN Faulty("nil")
         ELSE IF n # Nil /\ (hp[n].key < key \/ (orEqual /\ hp[n].key = key))
         THEN Then(here, DescentStays(hdr, hp, IF orEqual THEN cur ELSE n,
                                      level, key, orEqual, fuel - 1))
         ELSE IF level = 0 THEN Then(here, Faultless)
         ELSE Then(here, DescentStays(hdr, hp, cur, level - 1, key, orEqual, fuel - 1))

\* for level := MaxLevel - 1; level >= 0; level-- {
\*   for ; lanes[level] != nil && lanes[level].key < key; lanes = lanes[level].lanes {} }
\* of Set, Remove and Search of the Node variants, and with orEqual
\* for level := l.maxLevel - 1; level >= 0; level-- {
\*   if lanes[level] != nil && lanes[level].key <= key {
\*     elem = lanes[level]; lanes = elem.lanes; level++ } }
\* of get, AtOrBefore and AtOrAfter of the Element variant
RECURSIVE Descent(_, _, _, _, _, _, _)
Descent(hdr, hp, cur, level, key, orEqual, fuel) ==
    IF fuel = 0 THEN Faulty("fuel")
    ELSE IF LaneFault(hp, cur, level) # "none" THEN Faulty(LaneFault(hp, cur, level))
    ELSE LET n == Lane(hdr, hp, cur, level)
             here == [level |-> level, cur |-> cur, next |-> n]
         IN
         IF n # Nil /\ n \notin DOMAIN hp THEN Faulty("nil")
         ELSE IF n # Nil /\ (hp[n].key < key \/ (orEqual /\ hp[n].key = key))
         THEN Then(here, Descent(hdr, hp, n, level, key, orEqual, fuel - 1))
         ELSE IF level = 0 THEN Then(here, Faultless)
         ELSE Then(here, Descent(hdr, hp, cur, level - 1, key, orEqual, fuel - 1))

\* for level := l.maxLevel - 1; level >= 0; level-- { next = lanes[level]
\*   for next != nil && next.key < key { lanes, next = next.lanes, lanes[level] } ... }
\* of Set and Remove of the Element variant; after the inner loop both read
\* lanes[level]
RECURSIVE ElemDescent(_, _, _, _, _, _, _, _)
ElemDescent(hdr, hp, cur, next, entering, level, key, fuel) ==
    IF fuel = 0 THEN Faulty("fuel")
    ELSE IF LaneFault(hp, cur, level) # "none" THEN Faulty(LaneFault(hp, cur, level))
    ELSE LET nxt == IF entering THEN Lane(hdr, hp, cur, level) ELSE next
             here == [level |-> level, cur |-> cur, next |-> nxt]
         IN
         IF nxt # Nil /\ nxt \notin DOMAIN hp THEN Faulty("nil")
         ELSE IF nxt # Nil /\ hp[nxt].key < key
         THEN Then(here, ElemDescent(hdr, hp, nxt, Lane(hdr, hp, cur, level),
                                     FALSE, level, key, fuel - 1))
         ELSE IF level = 0 THEN Then(here, Faultless)
         ELSE Then(here, ElemDescent(hdr, hp, cur, Nil, TRUE, level - 1, key, fuel - 1))

\* the key of the node whose lanes `lanes` are, below every key for the
\* header, and the key of `next`, above every key for nil
KeyOfLanes(hp, cur) == IF cur = Nil THEN 0 ELSE hp[cur].key
KeyOfNext(hp, next) == IF next = Nil THEN MaxKey + 1 ELSE hp[next].key

\* from position p to position q the loop has dropped one level, or has
\* moved `lanes` or `next` to a node with a greater key on the same level
Progress(hp, p, q) ==
    \/ /\ q.level = p.level - 1
       /\ q.cur = p.cur
    \/ /\ q.level = p.level
       /\ KeyOfLanes(hp, q.cur) >= KeyOfLanes(hp, p.cur)
       /\ KeyOfNext(hp, q.next) >= KeyOfNext(hp, p.next)
       /\ \/ KeyOfLanes(hp, q.cur) > KeyOfLanes(hp, p.cur)
          \/ KeyOfNext(hp, q.next) > KeyOfNext(hp, p.next)

\* the descent ran into no fault, made progress at every step and ended at
\* level 0
Total(hp, d) ==
    /\ d.fault = "none"
    /\ d.steps # <<>>
    /\ d.steps[Len(d.steps)].level = 0
    /\ \A i \in 1..(Len(d.steps) - 1) : Progress(hp, d.steps[i], d.steps[i + 1])

\* every node on a lane has that lane
LanesInRange ==
    /\ \A L \in Levels : header[L] # Nil => L \in DOMAIN heap[header[L]].lanes
    /\ \A n \in DOMAIN heap : \A L \in DOMAIN heap[n].lanes :
          heap[n].lanes[L] # Nil =>
              /\ heap[n].lanes[L] \in DOMAIN heap
              /\ L \in DOMAIN heap[heap[n].lanes[L]].lanes

\* C35: in every state a list of any of the three kinds reaches, the descent
\* of every public operation, for every key, ends without a run-time failure:
\* every step of its loops drops one level or moves to a node with a greater
\* key on the same level -- also in the descent of the Element variant that
\* examines the same level again after each move -- and the lanes of a node
\* are read only below the node's level, in the slice-lane variant too.
C35_OperationsTotal ==
    /\ LanesInRange
    /\ last # Nil => last \in DOMAIN heap
    /\ \A key \in QueryKeys :
          IF IsElementOptions(options)
          THEN /\ Total(heap, Descent(header, heap, Nil, MaxLevel - 1, key, TRUE, Fuel))
               /\ Total(heap, ElemDescent(header, heap, Nil, Nil, TRUE,
                                          MaxLevel - 1, key, Fuel))
          ELSE Total(heap, Descent(header, heap, Nil, MaxLevel - 1, key, FALSE, Fuel))

\* a list of the slice-lane variant holds two or more nodes, one of them with
\* fewer lanes than the header, and a descent through it both moves along a
\* lane and drops
C35_Witness ==
    /\ IsSliceOptions(options)
    /\ length >= 2
    /\ header[MaxLevel - 1] # Nil
    /\ \E n \in DOMAIN heap : Cardinality(DOMAIN heap[n].lanes) < MaxLevel
    /\ LET d == Descent(header, heap, Nil, MaxLevel - 1, MaxKey + 1, FALSE, Fuel) IN
       /\ Total(heap, d)
       /\ Len(d.steps) > MaxLevel + 1

====
